---- MODULE Spec2Model ----
(***************************************************************************)
(* Theme video publish/archive state machine of spo-backend.               *)
(*                                                                         *)
(* A path string is modelled as the sequence of its "/"-separated          *)
(* components, so "food/published/a.mp4" is <<"food","published","a.mp4">> *)
(* and a trailing slash or a double slash shows as an empty component:     *)
(* "food/" is <<"food","">>.  Paths are relative to the library's basePath.*)
(***************************************************************************)
EXTENDS Integers, Sequences, FiniteSets, TLC

VARIABLES
    fs,                \* [library id -> [files : path -> file identity, dirs : set of paths]]
    theme,             \* the theme row (exists, archiveFolderName, resourcePaths)
    libraryRows,       \* ResourceLibrary rows: [library id -> [type, config, isActive]]
    libraryInstances,  \* ResourceService.libraryInstances: ids with a cached instance
    accounts,          \* ids of the PlatformAccount rows
    tasks,             \* UploadTask rows, task id = index
    activeUploaders,   \* UploadService.activeUploaders: task ids with an uploader
    activeSessions,    \* the PlaywrightService of each login session: whether
                       \* AccountService.activeSessions holds it, and its browser context
    inflight,          \* the calls that run step by step: where each one stands
    last               \* the last call: its name, arguments, injected faults and outcome

vars == <<fs, theme, libraryRows, libraryInstances, accounts, tasks, activeUploaders,
          activeSessions, inflight, last>>

----------------------------------------------------------------------------
(* Bounds of the model *)

\* longest videoPaths array of a request
MaxReq == 2
\* most UploadTask rows
MaxTasks == 4
\* longest accountIds array of a request
MaxAccounts == 2
\* longest taskIds array of a request
MaxTaskIds == 2
\* most components of a videoPath passed to archiveVideo or unarchiveVideo
MaxDepth == 3
\* most resource roots of the theme
MaxRoots == 2

\* calls of the upload service started in one run
MaxCalls == 3

----------------------------------------------------------------------------
(* Generic helpers *)

Range(s) == {s[i] : i \in 1..Len(s)}

SeqsUpTo(S, n) == UNION {[1..k -> S] : k \in 0..n}

SetsUpTo(S, n) == {x \in SUBSET S : Cardinality(x) <= n}

\* the elements of a finite set, each once, in some fixed order
RECURSIVE SetToSeq(_)
SetToSeq(S) == IF S = {} THEN <<>> ELSE LET x == CHOOSE y \in S : TRUE IN <<x>> \o SetToSeq(S \ {x})

\* results.filter(r => r.success).length, results.filter(r => !r.success).length
CountBySuccess(results, success) ==
    Cardinality({i \in 1..Len(results) : results[i].success = success})

----------------------------------------------------------------------------
(* Node's path module on component sequences *)

RECURSIVE StripTrailing(_)
StripTrailing(p) ==
    IF p # <<>> /\ p[Len(p)] = "" THEN StripTrailing(SubSeq(p, 1, Len(p) - 1)) ELSE p

\* path.normalize: empty components (doubled or trailing slashes) disappear
Normalize(p) == SelectSeq(p, LAMBDA c : c # "")

\* path.join(a, b)
PathJoin(a, b) == Normalize(a \o b)

\* path.dirname: the trailing slashes, the last component and the one slash
\* before it go; what is before that slash stays as written ("food//a.mp4"
\* gives "food/"); the "." of a path without directory part is the empty path
PathDirname(p) ==
    LET q == StripTrailing(p)
    IN  IF q = <<>> THEN <<>> ELSE SubSeq(q, 1, Len(q) - 1)

\* path.basename
PathBasename(p) ==
    LET q == StripTrailing(p)
    IN  IF q = <<>> THEN "" ELSE q[Len(q)]

\* the template string `${dir}/${name}`: plain concatenation, nothing normalised
Template(dir, name) == dir \o <<name>>

\* pairs <<s, t>> of the names in use where t is a proper suffix of s
ProperSuffixes == {<<"unpublished", "published">>}

\* String.prototype.endsWith on the names in use
StrEndsWith(s, t) == s = t \/ <<s, t>> \in ProperSuffixes

\* directory.endsWith(name) for a name without slash: decided by what follows
\* the directory's last slash
DirEndsWith(dir, name) == dir # <<>> /\ StrEndsWith(dir[Len(dir)], name)

----------------------------------------------------------------------------
(* Resource types *)

\* every file name in use, in localeCompare order
AllNames == <<"a.mp4", "b.mp4", "c.jpg", "notes.txt">>

VideoNames == {"a.mp4", "b.mp4"}

ImageNames == {"c.jpg"}

\* BaseResourceLibrary.getResourceType: by extension; anything else is 'folder'
getResourceType(name) ==
    IF name \in VideoNames THEN "video"
    ELSE IF name \in ImageNames THEN "image"
    ELSE "folder"

----------------------------------------------------------------------------
(* The storage behind one library: files (path -> identity) and directories *)

IsPrefix(d, p) == Len(d) <= Len(p) /\ SubSeq(p, 1, Len(d)) = d

Ancestors(d) == {SubSeq(d, 1, k) : k \in 1..Len(d)}

IsFile(lfs, p) == p \in DOMAIN lfs.files

IsDir(lfs, p) == p = <<>> \/ p \in lfs.dirs

Exists(lfs, p) == IsFile(lfs, p) \/ IsDir(lfs, p)

\* mkdir -p
MkdirP(lfs, d) == [lfs EXCEPT !.dirs = @ \cup Ancestors(d)]

\* q, a path at or under s, carried to the same place at or under t
Rebase(q, s, t) == t \o SubSeq(q, Len(s) + 1, Len(q))

\* what is at s (a file, or a directory with all below it) is from now on at t;
\* whatever was at t is replaced
RenameOver(lfs, s, t) ==
    LET stayF == {q \in DOMAIN lfs.files : ~IsPrefix(s, q) /\ ~IsPrefix(t, q)}
        goF == {q \in DOMAIN lfs.files : IsPrefix(s, q)}
        stayD == {d \in lfs.dirs : ~IsPrefix(s, d) /\ ~IsPrefix(t, d)}
        goD == {d \in lfs.dirs : IsPrefix(s, d)}
        from == [q \in {Rebase(x, s, t) : x \in goF} |->
                    CHOOSE x \in goF : Rebase(x, s, t) = q]
    IN  [files |-> [q \in stayF \cup DOMAIN from |->
                       IF q \in DOMAIN from THEN lfs.files[from[q]] ELSE lfs.files[q]],
         dirs  |-> stayD \cup {Rebase(d, s, t) : d \in goD}]

Outcome(ok, lfs, message) == [ok |-> ok, fs |-> lfs, message |-> message]

----------------------------------------------------------------------------
(* LocalResourceLibrary *)

\* every directory name in use, in localeCompare order
AllDirNames == <<"food", "published", "unpublished">>

FolderItem(dirPath, n) == [name |-> n, path |-> PathJoin(dirPath, <<n>>), type |-> "folder"]

FileItem(dirPath, n) == [name |-> n, path |-> PathJoin(dirPath, <<n>>), type |-> getResourceType(n)]

\* what both providers build from a directory's entries: folders first, then the
\* media files, each group sorted by name (sortResources); files that are no
\* media (getResourceType = 'folder') are left out
ListItems(lfs, dirPath) ==
    LET full == Normalize(dirPath)
        folders == SelectSeq(AllDirNames, LAMBDA n : IsDir(lfs, full \o <<n>>))
        files == SelectSeq(AllNames,
                    LAMBDA n : IsFile(lfs, full \o <<n>>) /\ getResourceType(n) # "folder")
    IN  [i \in 1..Len(folders) |-> FolderItem(dirPath, folders[i])]
        \o [i \in 1..Len(files) |-> FileItem(dirPath, files[i])]

\* list(dirPath): readdir raising (directory absent, or the injected fault) is
\* caught and answered with []
LocalList(lfs, dirPath, raises) ==
    IF raises \/ ~IsDir(lfs, Normalize(dirPath)) THEN <<>> ELSE ListItems(lfs, dirPath)

\* getInfo(filePath): fs.stat raises when the path is absent
LocalGetInfo(lfs, filePath) ==
    LET full == Normalize(filePath)
    IN  IF ~Exists(lfs, full) THEN Outcome(FALSE, lfs, "ENOENT")
        ELSE [ok |-> TRUE, fs |-> lfs, message |-> "",
              type |-> IF IsDir(lfs, full) THEN "folder" ELSE getResourceType(PathBasename(filePath))]

\* createFolder(folderPath): mkdir recursive; raises when a file is in the way
LocalCreateFolder(lfs, folderPath) ==
    LET full == Normalize(folderPath)
    IN  IF \E a \in Ancestors(full) : IsFile(lfs, a)
        THEN Outcome(FALSE, lfs, "createFolder failed")
        ELSE Outcome(TRUE, MkdirP(lfs, full), "")

LocalMoveCopies(lfs, sourcePath, targetPath, raises) ==
    LET s == Normalize(sourcePath)
        t == Normalize(targetPath)
        made == MkdirP(lfs, PathDirname(t))
    IN  IF ~Exists(lfs, s) THEN Outcome(FALSE, lfs, "ENOENT")
        ELSE IF Exists(lfs, t) THEN Outcome(FALSE, lfs, "target exists")
        ELSE IF raises THEN Outcome(FALSE, made, "rename failed")
        ELSE Outcome(TRUE, [made EXCEPT !.files = [q \in DOMAIN made.files \cup {t} |->
                                IF q = t THEN made.files[s] ELSE made.files[q]]], "")

\* move(sourcePath, targetPath): access(source), then access(target) which must
\* raise ENOENT, then mkdir -p of the target's directory, then rename
LocalMove(lfs, sourcePath, targetPath, raises) ==
    LET s == Normalize(sourcePath)
        t == Normalize(targetPath)
        made == MkdirP(lfs, PathDirname(t))
    IN  IF ~Exists(lfs, s) THEN Outcome(FALSE, lfs, "ENOENT")
        ELSE IF Exists(lfs, t) THEN Outcome(FALSE, lfs, "target exists")
        ELSE IF raises THEN Outcome(FALSE, made, "rename failed")
        ELSE Outcome(TRUE, RenameOver(made, s, t), "")

----------------------------------------------------------------------------
(* WebDAVResourceLibrary *)

\* list(dirPath): getDirectoryContents raising is caught and answered with []
WebDAVList(lfs, dirPath, raises) ==
    IF raises \/ ~IsDir(lfs, Normalize(dirPath)) THEN <<>> ELSE ListItems(lfs, dirPath)

\* getInfo(filePath): client.stat raises when the path is absent
WebDAVGetInfo(lfs, filePath) ==
    LET full == Normalize(filePath)
    IN  IF ~Exists(lfs, full) THEN Outcome(FALSE, lfs, "getInfo failed")
        ELSE [ok |-> TRUE, fs |-> lfs, message |-> "",
              type |-> IF IsDir(lfs, full) THEN "folder" ELSE getResourceType(PathBasename(filePath))]

\* createFolder(folderPath): one MKCOL, which the server refuses when the
\* collection exists already or its parent does not
WebDAVCreateFolder(lfs, folderPath) ==
    LET full == Normalize(folderPath)
    IN  IF Exists(lfs, full) \/ ~IsDir(lfs, PathDirname(full))
        THEN Outcome(FALSE, lfs, "createFolder failed")
        ELSE Outcome(TRUE, MkdirP(lfs, full), "")

\* move(sourcePath, targetPath): stat(source); stat(target), whose success
\* throws an Error that the catch around it rethrows only when it carries
\* error.response with a status other than 404 -- the Error thrown here carries
\* none, so the call goes on; createDirectory of the target's directory when
\* absent; then MOVE, which replaces the target (Overwrite defaults to T)
WebDAVMove(lfs, sourcePath, targetPath, raises) ==
    LET s == Normalize(sourcePath)
        t == Normalize(targetPath)
        made == MkdirP(lfs, PathDirname(t))
    IN  IF ~Exists(lfs, s) THEN Outcome(FALSE, lfs, "stat failed")
        ELSE IF raises THEN Outcome(FALSE, made, "moveFile failed")
        ELSE Outcome(TRUE, RenameOver(made, s, t), "")

----------------------------------------------------------------------------
(* IResourceLibrary, dispatched on the library row's type (ResourceLibraryFactory) *)

LibList(type, lfs, dirPath, raises) ==
    IF type = "local" THEN LocalList(lfs, dirPath, raises) ELSE WebDAVList(lfs, dirPath, raises)

LibGetInfo(type, lfs, filePath) ==
    IF type = "local" THEN LocalGetInfo(lfs, filePath) ELSE WebDAVGetInfo(lfs, filePath)

LibCreateFolder(type, lfs, folderPath) ==
    IF type = "local" THEN LocalCreateFolder(lfs, folderPath) ELSE WebDAVCreateFolder(lfs, folderPath)

LibMove(type, lfs, sourcePath, targetPath, raises) ==
    IF type = "local" THEN LocalMove(lfs, sourcePath, targetPath, raises)
    ELSE WebDAVMove(lfs, sourcePath, targetPath, raises)

----------------------------------------------------------------------------
(* ResourceService *)

NoInstance == [type |-> "none", config |-> "none"]

\* ResourceLibraryFactory.create(type, config)
CreateInstance(row) == [type |-> row.type, config |-> row.config]

\* getLibraryInstance(libraryId): the cached instance, else the row must exist
\* and be active, and the new instance is cached
getLibraryInstance(rows, instances, libraryId) ==
    IF libraryId \in DOMAIN instances
    THEN [ok |-> TRUE, instance |-> instances[libraryId], instances |-> instances]
    ELSE IF libraryId \notin DOMAIN rows \/ ~rows[libraryId].isActive
    THEN [ok |-> FALSE, instance |-> NoInstance, instances |-> instances]
    ELSE [ok |-> TRUE, instance |-> CreateInstance(rows[libraryId]),
          instances |-> [l \in DOMAIN instances \cup {libraryId} |->
                            IF l = libraryId THEN CreateInstance(rows[libraryId])
                            ELSE instances[l]]]

\* browseLibrary after getLibraryInstance: instance.list(path), then the type filter
BrowseWith(got, f, libraryId, path, type, listFails) ==
    IF ~got.ok THEN [ok |-> FALSE, items |-> <<>>, instances |-> got.instances]
    ELSE [ok |-> TRUE,
          items |-> SelectSeq(
              LibList(got.instance.type, f[libraryId], path,
                      <<libraryId, Normalize(path)>> \in listFails),
              LAMBDA r : r.type = type),
          instances |-> got.instances]

\* browseLibrary(libraryId, path, {type}): raises only when getLibraryInstance does
browseLibrary(f, rows, instances, libraryId, path, type, listFails) ==
    BrowseWith(getLibraryInstance(rows, instances, libraryId), f, libraryId, path, type, listFails)

----------------------------------------------------------------------------
(* ThemeService.getThemeVideos *)

ThemeNotFound == "theme not found"

\* theme.archiveFolderName || 'published'
ArchiveFolderNameOf(t) == IF t.archiveFolderName = "" THEN "published" ELSE t.archiveFolderName

VideoEntry(video, rp, libraryPath, isPublished) ==
    [name |-> video.name, path |-> video.path, type |-> video.type,
     libraryId |-> rp.libraryId, libraryPath |-> libraryPath,
     fullPath |-> Template(libraryPath, video.name), isPublished |-> isPublished]

MapEntries(items, rp, libraryPath, isPublished) ==
    [i \in 1..Len(items) |-> VideoEntry(items[i], rp, libraryPath, isPublished)]

OnlyVideos(resources) == SelectSeq(resources, LAMBDA r : r.type = "video")

ArchiveFolderVideosUnderRoot(mainVideos, arch, rp, archivePath) ==
    IF ~arch.ok THEN [videos |-> mainVideos, instances |-> arch.instances]
    ELSE [videos |-> mainVideos \o MapEntries(OnlyVideos(arch.items), rp, rp.folderPath, TRUE),
          instances |-> arch.instances]

\* the inner try: the archive folder's videos are tagged published; when
\* browseLibrary threw, the main folder's videos stand alone
ArchiveFolderVideos(mainVideos, arch, rp, archivePath) ==
    IF ~arch.ok THEN [videos |-> mainVideos, instances |-> arch.instances]
    ELSE [videos |-> mainVideos \o MapEntries(OnlyVideos(arch.items), rp, archivePath, TRUE),
          instances |-> arch.instances]

\* the outer try: the main folder's videos are tagged unpublished; when
\* browseLibrary threw, the root gives nothing
MainFolderVideos(main, f, rows, rp, archivePath, listFails) ==
    IF ~main.ok THEN [videos |-> <<>>, instances |-> main.instances]
    ELSE ArchiveFolderVideos(
             MapEntries(OnlyVideos(main.items), rp, rp.folderPath, FALSE),
             browseLibrary(f, rows, main.instances, rp.libraryId, archivePath, "video", listFails),
             rp, archivePath)

\* the body of the loop over the resource paths
ThemeRootVideos(f, rows, instances, rp, archiveFolderName, listFails) ==
    MainFolderVideos(
        browseLibrary(f, rows, instances, rp.libraryId, rp.folderPath, "video", listFails),
        f, rows, rp, PathJoin(rp.folderPath, <<archiveFolderName>>), listFails)

RECURSIVE ThemeVideosFrom(_, _, _, _, _, _)

ThemeVideosAfter(one, f, rows, resourcePaths, archiveFolderName, listFails) ==
    LET rest == ThemeVideosFrom(f, rows, one.instances, resourcePaths, archiveFolderName, listFails)
    IN  [videos |-> one.videos \o rest.videos, instances |-> rest.instances]

\* for (const resourcePath of resourcePaths) { ... allVideos.push(...) }
ThemeVideosFrom(f, rows, instances, resourcePaths, archiveFolderName, listFails) ==
    IF resourcePaths = <<>> THEN [videos |-> <<>>, instances |-> instances]
    ELSE ThemeVideosAfter(
             ThemeRootVideos(f, rows, instances, Head(resourcePaths), archiveFolderName, listFails),
             f, rows, Tail(resourcePaths), archiveFolderName, listFails)

ThemeVideosResult(got) == [threw |-> "", videos |-> got.videos, instances |-> got.instances]

\* getThemeVideos(themeId)
getThemeVideos(f, t, rows, instances, listFails) ==
    IF ~t.exists THEN [threw |-> ThemeNotFound, videos |-> <<>>, instances |-> instances]
    ELSE ThemeVideosResult(
             ThemeVideosFrom(f, rows, instances, t.resourcePaths, ArchiveFolderNameOf(t), listFails))

----------------------------------------------------------------------------
(* ThemeService.archiveVideo / unarchiveVideo *)

Call(fn, libraryId, path, target, ok) ==
    [fn |-> fn, libraryId |-> libraryId, path |-> path, target |-> target, ok |-> ok]

Thrown(f, instances, message, calls) ==
    [ok |-> FALSE, message |-> message, fs |-> f, instances |-> instances, calls |-> calls]

Returned(f, instances, calls) ==
    [ok |-> TRUE, message |-> "", fs |-> f, instances |-> instances, calls |-> calls]

AfterMoveKeepsStore(moved, f, instances, libraryId, videoPath, targetPath, calls) ==
    IF ~moved.ok
    THEN Thrown(f, instances, moved.message,
                calls \o <<Call("move", libraryId, videoPath, targetPath, FALSE)>>)
    ELSE Returned(f, instances,
                  calls \o <<Call("move", libraryId, videoPath, targetPath, TRUE)>>)

\* the end of archiveVideo and unarchiveVideo: the move has returned or thrown
AfterMove(moved, f, instances, libraryId, videoPath, targetPath, calls) ==
    IF ~moved.ok
    THEN Thrown([f EXCEPT ![libraryId] = moved.fs], instances, moved.message,
                calls \o <<Call("move", libraryId, videoPath, targetPath, FALSE)>>)
    ELSE Returned([f EXCEPT ![libraryId] = moved.fs], instances,
                  calls \o <<Call("move", libraryId, videoPath, targetPath, TRUE)>>)

\* await library.move(videoPath, targetPath), on the library as `lfs` has it
MoveToArchive(lfs, f, got, libraryId, videoPath, targetPath, raises, calls) ==
    AfterMove(LibMove(got.instance.type, lfs, videoPath, targetPath, raises),
              f, got.instances, libraryId, videoPath, targetPath, calls)

\* the catch of getInfo: createFolder has returned or thrown
AfterCreateFolder(made, f, got, libraryId, videoPath, archivePath, targetPath, raises) ==
    IF ~made.ok
    THEN Thrown(f, got.instances, made.message,
                <<Call("getInfo", libraryId, archivePath, <<>>, FALSE),
                  Call("createFolder", libraryId, archivePath, <<>>, FALSE)>>)
    ELSE MoveToArchive(made.fs, f, got, libraryId, videoPath, targetPath, raises,
                       <<Call("getInfo", libraryId, archivePath, <<>>, FALSE),
                         Call("createFolder", libraryId, archivePath, <<>>, TRUE)>>)

EnsureArchiveFolderMovesFirst(info, f, got, libraryId, videoPath, archivePath, targetPath, raises) ==
    AfterMove(LibMove(got.instance.type, f[libraryId], videoPath, targetPath, raises),
              f, got.instances, libraryId, videoPath, targetPath, <<>>)

\* try { await library.getInfo(archivePath) } catch { await library.createFolder(archivePath) }
EnsureArchiveFolder(info, f, got, libraryId, videoPath, archivePath, targetPath, raises) ==
    IF info.ok
    THEN MoveToArchive(f[libraryId], f, got, libraryId, videoPath, targetPath, raises,
                       <<Call("getInfo", libraryId, archivePath, <<>>, TRUE)>>)
    ELSE AfterCreateFolder(LibCreateFolder(got.instance.type, f[libraryId], archivePath),
                           f, got, libraryId, videoPath, archivePath, targetPath, raises)

\* archiveVideo once the library instance is there: the paths, then the calls
ArchiveIn(got, f, libraryId, videoPath, archivePath, raises) ==
    IF ~got.ok THEN Thrown(f, got.instances, "library unavailable", <<>>)
    ELSE EnsureArchiveFolder(LibGetInfo(got.instance.type, f[libraryId], archivePath),
                             f, got, libraryId, videoPath, archivePath,
                             PathJoin(archivePath, <<PathBasename(videoPath)>>), raises)

\* archiveVideo(themeId, libraryId, videoPath): getInfo on the archive folder,
\* createFolder when that raised, then move into it
archiveVideo(f, t, rows, instances, libraryId, videoPath, raises) ==
    IF ~t.exists THEN Thrown(f, instances, ThemeNotFound, <<>>)
    ELSE ArchiveIn(getLibraryInstance(rows, instances, libraryId), f, libraryId, videoPath,
                   PathJoin(PathDirname(videoPath), <<ArchiveFolderNameOf(t)>>), raises)

UnarchiveInKeepsDirectory(got, f, libraryId, videoPath, directory, archiveFolderName, raises) ==
    IF ~got.ok THEN Thrown(f, got.instances, "library unavailable", <<>>)
    ELSE IF ~DirEndsWith(directory, archiveFolderName)
    THEN Thrown(f, got.instances, "video not in archive folder", <<>>)
    ELSE MoveToArchive(f[libraryId], f, got, libraryId, videoPath,
                       PathJoin(directory, <<PathBasename(videoPath)>>), raises, <<>>)

\* unarchiveVideo once the library instance is there: the directory must end
\* with the archive folder name; the target is in the directory above
UnarchiveIn(got, f, libraryId, videoPath, directory, archiveFolderName, raises) ==
    IF ~got.ok THEN Thrown(f, got.instances, "library unavailable", <<>>)
    ELSE IF ~DirEndsWith(directory, archiveFolderName)
    THEN Thrown(f, got.instances, "video not in archive folder", <<>>)
    ELSE MoveToArchive(f[libraryId], f, got, libraryId, videoPath,
                       PathJoin(PathDirname(directory), <<PathBasename(videoPath)>>), raises, <<>>)

\* unarchiveVideo(themeId, libraryId, videoPath)
unarchiveVideo(f, t, rows, instances, libraryId, videoPath, raises) ==
    IF ~t.exists THEN Thrown(f, instances, ThemeNotFound, <<>>)
    ELSE UnarchiveIn(getLibraryInstance(rows, instances, libraryId), f, libraryId, videoPath,
                     PathDirname(videoPath), ArchiveFolderNameOf(t), raises)

----------------------------------------------------------------------------
(* ThemeService.batchArchiveVideos / batchUnarchiveVideos *)

Succeeded(video) == [path |-> video.fullPath, success |-> TRUE]

Failed(video, message) == [path |-> video.fullPath, success |-> FALSE, message |-> message]

ResultOf(video, r) == IF r.ok THEN Succeeded(video) ELSE Failed(video, r.message)

\* whether the backend move of this video is one the environment makes raise
Raises(video, failMoves) == <<video.libraryId, Normalize(video.fullPath)>> \in failMoves

NoAttempts(f, instances) ==
    [fs |-> f, instances |-> instances, results |-> <<>>, calls |-> <<>>]

RECURSIVE ArchiveLoop(_, _, _, _, _, _)

ArchiveNextStopsAtFailure(video, r, t, rows, videos, failMoves) ==
    LET rest == IF r.ok THEN ArchiveLoop(r.fs, t, rows, r.instances, videos, failMoves)
                ELSE NoAttempts(r.fs, r.instances)
    IN  [fs |-> rest.fs, instances |-> rest.instances,
         results |-> <<ResultOf(video, r)>> \o rest.results,
         calls |-> <<r.calls>> \o rest.calls]

\* results.push(...) for this video, then the videos after it
ArchiveNext(video, r, t, rows, videos, failMoves) ==
    LET rest == ArchiveLoop(r.fs, t, rows, r.instances, videos, failMoves)
    IN  [fs |-> rest.fs, instances |-> rest.instances,
         results |-> <<ResultOf(video, r)>> \o rest.results,
         calls |-> <<r.calls>> \o rest.calls]

ArchiveLoopAllAtOnce(f, t, rows, instances, videos, failMoves) ==
    IF videos = <<>> THEN NoAttempts(f, instances)
    ELSE LET each == [i \in 1..Len(videos) |->
                         archiveVideo(f, t, rows, instances, videos[i].libraryId,
                                      videos[i].fullPath, Raises(videos[i], failMoves))]
         IN  [fs |-> each[Len(videos)].fs, instances |-> each[Len(videos)].instances,
              results |-> [i \in 1..Len(videos) |-> ResultOf(videos[i], each[i])],
              calls |-> [i \in 1..Len(videos) |-> each[i].calls]]

\* for (const video of videosToArchive) { try { await archiveVideo(...) } catch ... }
\* calls[i] are the Resource Store calls made for the i-th video
ArchiveLoop(f, t, rows, instances, videos, failMoves) ==
    IF videos = <<>> THEN NoAttempts(f, instances)
    ELSE ArchiveNext(Head(videos),
                     archiveVideo(f, t, rows, instances, Head(videos).libraryId,
                                  Head(videos).fullPath, Raises(Head(videos), failMoves)),
                     t, rows, Tail(videos), failMoves)

RECURSIVE UnarchiveLoop(_, _, _, _, _, _)

\* results.push(...) for this video, then the videos after it
UnarchiveNext(video, r, t, rows, videos, failMoves) ==
    LET rest == UnarchiveLoop(r.fs, t, rows, r.instances, videos, failMoves)
    IN  [fs |-> rest.fs, instances |-> rest.instances,
         results |-> <<ResultOf(video, r)>> \o rest.results,
         calls |-> <<r.calls>> \o rest.calls]

\* for (const video of videosToUnarchive) { try { await unarchiveVideo(...) } catch ... }
UnarchiveLoop(f, t, rows, instances, videos, failMoves) ==
    IF videos = <<>> THEN NoAttempts(f, instances)
    ELSE UnarchiveNext(Head(videos),
                       unarchiveVideo(f, t, rows, instances, Head(videos).libraryId,
                                      Head(videos).fullPath, Raises(Head(videos), failMoves)),
                       t, rows, Tail(videos), failMoves)

BatchThrew(f, instances, message) ==
    [threw |-> message, total |-> 0, done |-> 0, failed |-> 0, results |-> <<>>,
     calls |-> <<>>, videos |-> <<>>, eligible |-> <<>>, fs |-> f, instances |-> instances]

BatchReturnedCountsRequested(videoPaths, allVideos, eligible, loop) ==
    [threw |-> "", total |-> Len(videoPaths),
     done |-> CountBySuccess(loop.results, TRUE),
     failed |-> Len(videoPaths) - CountBySuccess(loop.results, TRUE),
     results |-> loop.results, calls |-> loop.calls,
     videos |-> allVideos, eligible |-> eligible,
     fs |-> loop.fs, instances |-> loop.instances]

\* return { total, archived | unarchived, failed, results }
BatchReturned(videoPaths, allVideos, eligible, loop) ==
    [threw |-> "", total |-> Len(videoPaths),
     done |-> CountBySuccess(loop.results, TRUE),
     failed |-> CountBySuccess(loop.results, FALSE),
     results |-> loop.results, calls |-> loop.calls,
     videos |-> allVideos, eligible |-> eligible,
     fs |-> loop.fs, instances |-> loop.instances]

ArchiveFilterKeepsPublished(allVideos, videoPaths) ==
    SelectSeq(allVideos, LAMBDA video : video.fullPath \in Range(videoPaths))

\* allVideos.filter(video => videoPaths.includes(video.fullPath) && !video.isPublished)
ArchiveFilter(allVideos, videoPaths) ==
    SelectSeq(allVideos, LAMBDA video : video.fullPath \in Range(videoPaths) /\ ~video.isPublished)

\* allVideos.filter(video => videoPaths.includes(video.fullPath) && video.isPublished)
UnarchiveFilter(allVideos, videoPaths) ==
    SelectSeq(allVideos, LAMBDA video : video.fullPath \in Range(videoPaths) /\ video.isPublished)

\* batchArchiveVideos after getThemeVideos: the filter, the loop, the counts
ArchiveListed(all, f, t, rows, videoPaths, failMoves) ==
    BatchReturned(videoPaths, all.videos, ArchiveFilter(all.videos, videoPaths),
                  ArchiveLoop(f, t, rows, all.instances, ArchiveFilter(all.videos, videoPaths),
                              failMoves))

\* batchArchiveVideos(themeId, videoPaths); `done` is the result's `archived`
batchArchiveVideos(f, t, rows, instances, videoPaths, failMoves) ==
    IF ~t.exists THEN BatchThrew(f, instances, ThemeNotFound)
    ELSE ArchiveListed(getThemeVideos(f, t, rows, instances, {}), f, t, rows, videoPaths, failMoves)

\* batchUnarchiveVideos after getThemeVideos: the filter, the loop, the counts
UnarchiveListed(all, f, t, rows, videoPaths, failMoves) ==
    BatchReturned(videoPaths, all.videos, UnarchiveFilter(all.videos, videoPaths),
                  UnarchiveLoop(f, t, rows, all.instances, UnarchiveFilter(all.videos, videoPaths),
                                failMoves))

\* batchUnarchiveVideos(themeId, videoPaths); `done` is the result's `unarchived`
batchUnarchiveVideos(f, t, rows, instances, videoPaths, failMoves) ==
    IF ~t.exists THEN BatchThrew(f, instances, ThemeNotFound)
    ELSE UnarchiveListed(getThemeVideos(f, t, rows, instances, {}), f, t, rows, videoPaths,
                         failMoves)

----------------------------------------------------------------------------
(* UploadService.createTask and ThemeService.batchPublishThemeVideos *)

\* path.parse(name).name on the names in use: the name without its extension
Stem(name) ==
    CASE name = "a.mp4" -> "a"
      [] name = "b.mp4" -> "b"
      [] name = "c.jpg" -> "c"
      [] OTHER -> name

\* createTask(data): prisma.uploadTask.create, status 'pending'; the row
\* refers to its account, so the create raises when there is no such account
createTask(rows, known, data) ==
    IF data.platformId \notin known THEN [ok |-> FALSE, rows |-> rows, id |-> 0]
    ELSE [ok |-> TRUE,
          rows |-> Append(rows, [platformId |-> data.platformId,
                                 libraryId |-> data.libraryId,
                                 resourcePath |-> data.resourcePath,
                                 resourceType |-> "video",
                                 title |-> data.title,
                                 status |-> "pending"]),
          id |-> Len(rows) + 1]

\* the (accountId, video) pairs in the order the two nested loops visit them
RECURSIVE AccountVideoPairs(_, _)
AccountVideoPairs(accountIds, videos) ==
    IF accountIds = <<>> THEN <<>>
    ELSE [j \in 1..Len(videos) |-> [accountId |-> Head(accountIds), video |-> videos[j]]]
         \o AccountVideoPairs(Tail(accountIds), videos)

TaskData(pair) ==
    [platformId |-> pair.accountId, libraryId |-> pair.video.libraryId,
     resourcePath |-> pair.video.fullPath, title |-> Stem(pair.video.name)]

\* tasks.push({ taskId, accountId, videoName, videoPath, libraryId, autoArchive })
TaskEntry(made, pair, autoArchive) ==
    [taskId |-> made.id, accountId |-> pair.accountId, videoName |-> pair.video.name,
     videoPath |-> pair.video.fullPath, libraryId |-> pair.video.libraryId,
     autoArchive |-> autoArchive]

RECURSIVE PublishLoop(_, _, _, _)

\* after createTask for one pair: its raise leaves the loops and the method
PublishNext(made, pair, known, pairs, autoArchive) ==
    IF ~made.ok THEN [threw |-> "createTask failed", rows |-> made.rows, tasks |-> <<>>]
    ELSE LET rest == PublishLoop(made.rows, known, pairs, autoArchive)
         IN  [threw |-> rest.threw, rows |-> rest.rows,
              tasks |-> <<TaskEntry(made, pair, autoArchive)>> \o rest.tasks]

\* for (const accountId of options.accountIds) for (const video of videosToPublish)
PublishLoop(rows, known, pairs, autoArchive) ==
    IF pairs = <<>> THEN [threw |-> "", rows |-> rows, tasks |-> <<>>]
    ELSE PublishNext(createTask(rows, known, TaskData(Head(pairs))),
                     Head(pairs), known, Tail(pairs), autoArchive)

\* fs is the Resource Store as the method leaves it
PublishThrew(f, rows, instances, message, allVideos) ==
    [threw |-> message, tasks |-> <<>>, totalTasks |-> 0, accountCount |-> 0,
     videoCount |-> 0, videos |-> allVideos, rows |-> rows, instances |-> instances,
     fs |-> f]

\* return { tasks, totalTasks, accountCount, videoCount }
PublishReturned(f, loop, accountIds, allVideos, videosToPublish, instances) ==
    IF loop.threw # "" THEN PublishThrew(f, loop.rows, instances, loop.threw, allVideos)
    ELSE [threw |-> "", tasks |-> loop.tasks, totalTasks |-> Len(loop.tasks),
          accountCount |-> Len(accountIds), videoCount |-> Len(videosToPublish),
          videos |-> allVideos, rows |-> loop.rows, instances |-> instances, fs |-> f]

PublishFilterUnpublishedOnly(allVideos, videoPaths) ==
    SelectSeq(allVideos, LAMBDA video : video.fullPath \in Range(videoPaths) /\ ~video.isPublished)

\* allVideos.filter(video => options.videoPaths.includes(video.fullPath))
PublishFilter(allVideos, videoPaths) ==
    SelectSeq(allVideos, LAMBDA video : video.fullPath \in Range(videoPaths))

\* options.autoArchive !== false, the option being "undefined", "true" or "false"
AutoArchiveOf(option) == option # "false"

\* batchPublishThemeVideos after getThemeVideos: the filter, the two loops
PublishListed(f, all, rows, known, accountIds, videoPaths, option) ==
    IF PublishFilter(all.videos, videoPaths) = <<>>
    THEN PublishThrew(f, rows, all.instances, "no matching video", all.videos)
    ELSE PublishReturned(f,
             PublishLoop(rows, known,
                         AccountVideoPairs(accountIds, PublishFilter(all.videos, videoPaths)),
                         AutoArchiveOf(option)),
             accountIds, all.videos, PublishFilter(all.videos, videoPaths), all.instances)

batchPublishSkipsVideoPathsCheck(f, t, libRows, instances, rows, known, accountIds, videoPaths, option) ==
    IF ~t.exists THEN PublishThrew(f, rows, instances, ThemeNotFound, <<>>)
    ELSE IF accountIds = <<>> THEN PublishThrew(f, rows, instances, "no account given", <<>>)
    ELSE PublishListed(f, getThemeVideos(f, t, libRows, instances, {}), rows, known,
                       accountIds, videoPaths, option)

batchPublishArchivesAtOnce(f, t, libRows, instances, rows, known, accountIds, videoPaths, option) ==
    IF ~t.exists THEN PublishThrew(f, rows, instances, ThemeNotFound, <<>>)
    ELSE IF accountIds = <<>> THEN PublishThrew(f, rows, instances, "no account given", <<>>)
    ELSE IF videoPaths = <<>> THEN PublishThrew(f, rows, instances, "no video given", <<>>)
    ELSE PublishListed(IF AutoArchiveOf(option)
                       THEN batchArchiveVideos(f, t, libRows, instances, videoPaths, {}).fs
                       ELSE f,
                       getThemeVideos(f, t, libRows, instances, {}), rows, known,
                       accountIds, videoPaths, option)

\* batchPublishThemeVideos(themeId, { accountIds, videoPaths, autoArchive })
batchPublishThemeVideos(f, t, libRows, instances, rows, known, accountIds, videoPaths, option) ==
    IF ~t.exists THEN PublishThrew(f, rows, instances, ThemeNotFound, <<>>)
    ELSE IF accountIds = <<>> THEN PublishThrew(f, rows, instances, "no account given", <<>>)
    ELSE IF videoPaths = <<>> THEN PublishThrew(f, rows, instances, "no video given", <<>>)
    ELSE PublishListed(f, getThemeVideos(f, t, libRows, instances, {}), rows, known,
                       accountIds, videoPaths, option)

----------------------------------------------------------------------------
(* ThemeService.createTheme, updateTheme and addResourcePathToTheme *)

\* ThemeModel.setResourcePaths(themeId, paths): deleteMany, then createMany
setResourcePaths(t, paths) == [t EXCEPT !.resourcePaths = paths]

ThemeResult(threw, t, instances) == [threw |-> threw, theme |-> t, instances |-> instances]

\* createTheme(data): the row, then the resource paths when some are given;
\* archiveFolderName is "undefined" when the body leaves it out
createTheme(instances, archiveFolderName, pathsGiven, paths) ==
    ThemeResult("",
                IF pathsGiven /\ paths # <<>>
                THEN setResourcePaths([exists |-> TRUE,
                                       archiveFolderName |-> IF archiveFolderName = "undefined"
                                                             THEN "" ELSE archiveFolderName,
                                       resourcePaths |-> <<>>], paths)
                ELSE [exists |-> TRUE,
                      archiveFolderName |-> IF archiveFolderName = "undefined"
                                            THEN "" ELSE archiveFolderName,
                      resourcePaths |-> <<>>],
                instances)

\* updateTheme(id, data) of a theme that is there
UpdateExisting(t, archiveFolderName, pathsGiven, paths) ==
    [exists |-> TRUE,
     archiveFolderName |-> IF archiveFolderName = "undefined" THEN t.archiveFolderName
                           ELSE archiveFolderName,
     resourcePaths |-> IF pathsGiven THEN paths ELSE t.resourcePaths]

\* updateTheme(id, data); without the theme row ThemeModel.update and
\* createMany raise, and a call that reaches neither returns null
updateTheme(t, instances, archiveFolderName, pathsGiven, paths) ==
    IF t.exists
    THEN ThemeResult("", UpdateExisting(t, archiveFolderName, pathsGiven, paths), instances)
    ELSE IF archiveFolderName # "undefined" THEN ThemeResult("record not found", t, instances)
    ELSE IF pathsGiven /\ paths # <<>> THEN ThemeResult("no such theme row", t, instances)
    ELSE ThemeResult("", t, instances)

\* addResourcePathToTheme after getResourceInfo: every error of the try block,
\* the 'not a folder' one included, is replaced by one message; then
\* ThemeModel.addResourcePath, which raises without the theme row
AddValidated(got, info, t, libraryId, folderPath) ==
    IF ~info.ok THEN ThemeResult("folder missing or inaccessible", t, got.instances)
    ELSE IF info.type # "folder"
    THEN ThemeResult("folder missing or inaccessible", t, got.instances)
    ELSE IF ~t.exists THEN ThemeResult("no such theme row", t, got.instances)
    ELSE ThemeResult("", [t EXCEPT !.resourcePaths =
                                       Append(@, [libraryId |-> libraryId,
                                                  folderPath |-> folderPath])],
                     got.instances)

AddWith(got, f, t, libraryId, folderPath) ==
    IF ~got.ok THEN ThemeResult("folder missing or inaccessible", t, got.instances)
    ELSE AddValidated(got, LibGetInfo(got.instance.type, f[libraryId], folderPath),
                      t, libraryId, folderPath)

\* addResourcePathToTheme(themeId, libraryId, folderPath)
addResourcePathToTheme(f, t, rows, instances, libraryId, folderPath) ==
    AddWith(getLibraryInstance(rows, instances, libraryId), f, t, libraryId, folderPath)

----------------------------------------------------------------------------
(* ThemeService.getThemeStatistics *)

\* videos.filter(v => v.isPublished).length and videos.filter(v => !v.isPublished).length
CountByPublished(videos, isPublished) ==
    Cardinality({i \in 1..Len(videos) : videos[i].isPublished = isPublished})

StatisticsOf(got) ==
    [threw |-> got.threw, published |-> CountByPublished(got.videos, TRUE),
     unpublished |-> CountByPublished(got.videos, FALSE), instances |-> got.instances]

\* getThemeStatistics(themeId)
getThemeStatistics(f, t, rows, instances, listFails) ==
    StatisticsOf(getThemeVideos(f, t, rows, instances, listFails))

----------------------------------------------------------------------------
(* UploadService.executeTask and ThemeService.executeBatchPublish *)

\* what uploader.upload(uploadData) does: it resolves with success true or
\* false, rejects, or never settles
UploadOutcomes == {"success", "failure", "throws", "hangs"}

\* updateTaskStatus(taskId, status)
updateTaskStatus(rows, taskId, status) == [rows EXCEPT ![taskId].status = status]

ExecuteResult(threw, hung, success, message, upload, rows, active) ==
    [threw |-> threw, hung |-> hung, success |-> success, message |-> message,
     upload |-> upload, rows |-> rows, active |-> active]

\* the catch block of executeTask: the row is set to 'failed', the uploader
\* entry dropped and { success: false, message } returned
ExecuteCaught(rows, active, taskId, message, upload) ==
    ExecuteResult(FALSE, FALSE, FALSE, message, upload,
                  updateTaskStatus(rows, taskId, "failed"), active \ {taskId})

\* steps 4 to 10 of executeTask: the row is 'processing' and the uploader
\* registered while upload runs
ExecuteUpload(rows, active, taskId, outcome) ==
    CASE outcome = "success" ->
            ExecuteResult(FALSE, FALSE, TRUE, "uploaded", outcome,
                          updateTaskStatus(rows, taskId, "success"), active \ {taskId})
      [] outcome = "failure" ->
            ExecuteResult(FALSE, FALSE, FALSE, "upload failed", outcome,
                          updateTaskStatus(rows, taskId, "failed"), active \ {taskId})
      [] outcome = "throws" ->
            ExecuteCaught(rows, active, taskId, "upload threw", outcome)
      [] OTHER ->
            ExecuteResult(FALSE, TRUE, FALSE, "", outcome,
                          updateTaskStatus(rows, taskId, "processing"),
                          active \cup {taskId})

\* executeTask(taskId); for a task id with no row the update in the catch
\* block raises in its turn and executeTask rejects
executeTask(rows, active, known, taskId, outcome) ==
    IF taskId \notin 1..Len(rows)
    THEN ExecuteResult(TRUE, FALSE, FALSE, "no such task", "none", rows, active \ {taskId})
    ELSE IF rows[taskId].status = "processing"
    THEN ExecuteCaught(rows, active, taskId, "task is running", "none")
    ELSE IF rows[taskId].status = "success"
    THEN ExecuteCaught(rows, active, taskId, "task is done", "none")
    ELSE IF rows[taskId].platformId \notin known
    THEN ExecuteCaught(rows, active, taskId, "no such account", "none")
    ELSE ExecuteUpload(rows, active, taskId, outcome)

\* results.push({ taskId, success, message })
TaskResult(taskId, success, message) ==
    [taskId |-> taskId, success |-> success, message |-> message]

\* what one turn of the loop did: the upload outcome reached, the status of the
\* task row when archiveVideo was called ("" when it was not) and the Resource
\* Store calls archiveVideo made
TaskLog(taskId, upload, statusAtArchive, calls) ==
    [taskId |-> taskId, upload |-> upload, statusAtArchive |-> statusAtArchive,
     calls |-> calls]

ExecuteDone(f, instances, rows, active, hung) ==
    [fs |-> f, instances |-> instances, rows |-> rows, active |-> active,
     results |-> <<>>, log |-> <<>>, hung |-> hung]

ExecutePrepend(result, entry, rest) ==
    [rest EXCEPT !.results = <<result>> \o rest.results, !.log = <<entry>> \o rest.log]

RECURSIVE ExecuteLoop(_, _, _, _, _, _, _, _, _, _, _)

\* after archiveVideo for a task whose upload succeeded: its raise is caught
\* and becomes a failed result
ExecuteArchived(a, e, t, libRows, known, taskId, taskIds, outcomes, autoArchive, failMoves) ==
    ExecutePrepend(IF a.ok THEN TaskResult(taskId, TRUE, e.message)
                   ELSE TaskResult(taskId, FALSE, a.message),
                   TaskLog(taskId, e.upload, e.rows[taskId].status, a.calls),
                   ExecuteLoop(a.fs, t, libRows, a.instances, e.rows, e.active, known,
                               taskIds, outcomes, autoArchive, failMoves))

ExecuteNextIgnoresSuccess(e, f, t, libRows, instances, known, taskId, taskIds, outcomes, autoArchive, failMoves) ==
    IF e.hung THEN ExecuteDone(f, instances, e.rows, e.active, TRUE)
    ELSE IF e.threw
    THEN ExecutePrepend(TaskResult(taskId, FALSE, e.message),
                        TaskLog(taskId, e.upload, "", <<>>),
                        ExecuteLoop(f, t, libRows, instances, e.rows, e.active, known,
                                    taskIds, outcomes, autoArchive, failMoves))
    ELSE IF autoArchive
    THEN ExecuteArchived(archiveVideo(f, t, libRows, instances, e.rows[taskId].libraryId,
                                      e.rows[taskId].resourcePath,
                                      <<e.rows[taskId].libraryId,
                                        Normalize(e.rows[taskId].resourcePath)>> \in failMoves),
                         e, t, libRows, known, taskId, taskIds, outcomes, autoArchive,
                         failMoves)
    ELSE ExecutePrepend(TaskResult(taskId, e.success, e.message),
                        TaskLog(taskId, e.upload, "", <<>>),
                        ExecuteLoop(f, t, libRows, instances, e.rows, e.active, known,
                                    taskIds, outcomes, autoArchive, failMoves))

\* after executeTask for one task id: an upload that never settles leaves the
\* loop waiting; if (result.success && autoArchive) archiveVideo(...)
ExecuteNext(e, f, t, libRows, instances, known, taskId, taskIds, outcomes, autoArchive, failMoves) ==
    IF e.hung THEN ExecuteDone(f, instances, e.rows, e.active, TRUE)
    ELSE IF e.threw
    THEN ExecutePrepend(TaskResult(taskId, FALSE, e.message),
                        TaskLog(taskId, e.upload, "", <<>>),
                        ExecuteLoop(f, t, libRows, instances, e.rows, e.active, known,
                                    taskIds, outcomes, autoArchive, failMoves))
    ELSE IF e.success /\ autoArchive
    THEN ExecuteArchived(archiveVideo(f, t, libRows, instances, e.rows[taskId].libraryId,
                                      e.rows[taskId].resourcePath,
                                      <<e.rows[taskId].libraryId,
                                        Normalize(e.rows[taskId].resourcePath)>> \in failMoves),
                         e, t, libRows, known, taskId, taskIds, outcomes, autoArchive,
                         failMoves)
    ELSE ExecutePrepend(TaskResult(taskId, e.success, e.message),
                        TaskLog(taskId, e.upload, "", <<>>),
                        ExecuteLoop(f, t, libRows, instances, e.rows, e.active, known,
                                    taskIds, outcomes, autoArchive, failMoves))

\* for (const taskId of taskIds) { try { ... } catch ... }; outcomes[i] is what
\* the upload of the i-th task id does if it is reached
ExecuteLoop(f, t, libRows, instances, rows, active, known, taskIds, outcomes, autoArchive, failMoves) ==
    IF taskIds = <<>> THEN ExecuteDone(f, instances, rows, active, FALSE)
    ELSE ExecuteNext(executeTask(rows, active, known, Head(taskIds), Head(outcomes)),
                     f, t, libRows, instances, known, Head(taskIds), Tail(taskIds),
                     Tail(outcomes), autoArchive, failMoves)

ExecuteReturned(r) ==
    [threw |-> "", hung |-> r.hung, results |-> r.results, log |-> r.log, fs |-> r.fs,
     instances |-> r.instances, rows |-> r.rows, active |-> r.active]

\* executeBatchPublish(themeId, taskIds, autoArchive = true)
executeBatchPublish(f, t, libRows, instances, rows, active, known, taskIds, outcomes, option, failMoves) ==
    IF ~t.exists
    THEN [threw |-> ThemeNotFound, hung |-> FALSE, results |-> <<>>, log |-> <<>>,
          fs |-> f, instances |-> instances, rows |-> rows, active |-> active]
    ELSE ExecuteReturned(ExecuteLoop(f, t, libRows, instances, rows, active, known,
                                     taskIds, outcomes, option # "false", failMoves))

----------------------------------------------------------------------------
(* The routes of the theme router *)

Ok == 200

BadRequest == 400

ServerError == 500

\* res.json(success(result)) in the try block, res.status(500) in the catch
HttpStatus(r) == IF r.threw = "" THEN Ok ELSE ServerError

Answered(status, r) == [status |-> status, r |-> r]

\* the answer to a request the service was called for
Served(r) == Answered(HttpStatus(r), r)

\* a body field that is absent reads as undefined, and the code tests
\* !field || field.length === 0: given says whether the field is there
\* POST /:id/videos/archive
ArchiveRoute(f, t, rows, instances, given, videoPaths, failMoves) ==
    IF ~given \/ videoPaths = <<>>
    THEN Answered(BadRequest, BatchThrew(f, instances, "missing videoPaths"))
    ELSE Served(batchArchiveVideos(f, t, rows, instances, videoPaths, failMoves))

\* POST /:id/videos/unarchive
UnarchiveRoute(f, t, rows, instances, given, videoPaths, failMoves) ==
    IF ~given \/ videoPaths = <<>>
    THEN Answered(BadRequest, BatchThrew(f, instances, "missing videoPaths"))
    ELSE Served(batchUnarchiveVideos(f, t, rows, instances, videoPaths, failMoves))

\* POST /:id/batch-publish: the body goes to the service as it is
BatchPublishRoute(f, t, libRows, instances, rows, known, accountIds, videoPaths, option) ==
    Served(batchPublishThemeVideos(f, t, libRows, instances, rows, known,
                                   accountIds, videoPaths, option))

----------------------------------------------------------------------------
(* The configurations the runs start from *)

Food == <<"food">>

FoodPublished == <<"food", "published">>

Root(libraryId, folderPath) == [libraryId |-> libraryId, folderPath |-> folderPath]

Theme(archiveFolderName, resourcePaths) ==
    [exists |-> TRUE, archiveFolderName |-> archiveFolderName, resourcePaths |-> resourcePaths]

NoTheme == [exists |-> FALSE, archiveFolderName |-> "", resourcePaths |-> <<>>]

\* the files a library starts with: path -> identity
Ident(q) ==
    CASE q = Food \o <<"a.mp4">> -> "A"
      [] q = Food \o <<"b.mp4">> -> "B"
      [] q = Food \o <<"c.jpg">> -> "C"
      [] OTHER -> "PA"

\* the directories that hold the files, and the theme folder itself
DirsFor(paths) == {Food} \cup UNION {Ancestors(PathDirname(q)) : q \in paths}

Storage(paths) == [files |-> [q \in paths |-> Ident(q)], dirs |-> DirsFor(paths)]

\* a.mp4 and b.mp4 unpublished, no archive folder yet
Fresh == Storage({Food \o <<"a.mp4">>, Food \o <<"b.mp4">>, Food \o <<"c.jpg">>})

\* a.mp4 both unpublished and archived: archiving it collides
Colliding == Storage({Food \o <<"a.mp4">>, Food \o <<"b.mp4">>, Food \o <<"c.jpg">>,
                      FoodPublished \o <<"a.mp4">>})

\* b.mp4 unpublished, a.mp4 archived
Mixed == Storage({Food \o <<"b.mp4">>, FoodPublished \o <<"a.mp4">>})

\* b.mp4 next to a file that is neither video, image nor audio
Noted == Storage({Food \o <<"b.mp4">>, Food \o <<"notes.txt">>})

LibraryRows(webdavActive) ==
    [l \in {1, 2} |-> IF l = 1 THEN [type |-> "local", config |-> "v1", isActive |-> TRUE]
                      ELSE [type |-> "webdav", config |-> "v1", isActive |-> webdavActive]]

Start(t, local, webdav, webdavActive) ==
    [theme |-> t, fs |-> [l \in {1, 2} |-> IF l = 1 THEN local ELSE webdav],
     libraryRows |-> LibraryRows(webdavActive)]

\* one root; the folder written with a trailing slash and archiveFolderName
\* left unset; the same folderPath in two libraries; a root that is the archive
\* folder of another root, in both orders; a root that is itself named like the
\* archive folder; the WebDAV library alone; no theme row
Starts ==
    {Start(Theme("published", <<Root(1, Food)>>), local, Fresh, TRUE) :
        local \in {Fresh, Colliding, Mixed}}
    \cup {Start(Theme("", <<Root(1, <<"food", "">>)>>), Fresh, Fresh, TRUE)}
    \cup {Start(Theme("published", <<Root(1, Food), Root(2, Food)>>), Fresh, Colliding, TRUE),
          Start(Theme("published", <<Root(1, Food), Root(2, Food)>>), Mixed, Fresh, FALSE)}
    \cup {Start(Theme("published", <<Root(1, Food), Root(1, FoodPublished)>>), Colliding, Fresh, TRUE),
          Start(Theme("published", <<Root(1, FoodPublished), Root(1, Food)>>), Colliding, Fresh, TRUE)}
    \cup {Start(Theme("published", <<Root(1, FoodPublished)>>), Mixed, Fresh, TRUE)}
    \cup {Start(Theme("published", <<Root(2, Food)>>), Fresh, Colliding, TRUE)}
    \cup {Start(NoTheme, Fresh, Fresh, TRUE)}

NoCall ==
    [op |-> "none", req |-> <<>>, failMoves |-> {}, listFails |-> {}, threw |-> "",
     total |-> 0, done |-> 0, failed |-> 0, results |-> <<>>, calls |-> <<>>,
     videos |-> <<>>, eligible |-> <<>>,
     accountIds |-> <<>>, autoArchive |-> "undefined", tasks |-> <<>>,
     totalTasks |-> 0, accountCount |-> 0, videoCount |-> 0,
     taskIds |-> <<>>, hung |-> FALSE, log |-> <<>>,
     published |-> 0, unpublished |-> 0,
     status |-> 0, accountsGiven |-> TRUE, pathsGiven |-> TRUE, libraryId |-> 0,
     roots |-> <<>>, archiveFolderName |-> "undefined"]

Init ==
    /\ \E st \in Starts :
          /\ fs = st.fs
          /\ theme = st.theme
          /\ libraryRows = st.libraryRows
    /\ libraryInstances = <<>>
    /\ accounts = {1, 2}
    /\ tasks = <<>>
    /\ activeUploaders = {}
    /\ activeSessions = <<>>
    /\ inflight = <<>>
    /\ last = NoCall

----------------------------------------------------------------------------
(* The calls *)

\* a path no video has
GhostPath == Food \o <<"ghost.mp4">>

Inventory == getThemeVideos(fs, theme, libraryRows, libraryInstances, {}).videos

\* where an archived video was before it was archived
BeforeArchive(v) == Template(PathDirname(v.libraryPath), v.name)

\* what a client asks for: paths it is shown, paths it was shown before the
\* videos were archived, a path that matches nothing
RequestPaths(inventory) ==
    {v.fullPath : v \in Range(inventory)}
    \cup {BeforeArchive(v) : v \in {w \in Range(inventory) : w.isPublished}}
    \cup {GhostPath}

\* videoPaths: the code reads it with includes() and length only, so the order
\* of the paths is immaterial and one order stands for all
Requests(inventory) == {SetToSeq(S) : S \in SetsUpTo(RequestPaths(inventory), MaxReq)}

\* the backend moves (library, source) the environment can make raise: those
\* of the videos the call will attempt
FailTargets(eligible) == {<<v.libraryId, Normalize(v.fullPath)>> : v \in Range(eligible)}

\* the directory listings (library, directory) the environment can make raise
ListTargets ==
    UNION {{<<rp.libraryId, Normalize(rp.folderPath)>>,
            <<rp.libraryId, PathJoin(rp.folderPath, <<ArchiveFolderNameOf(theme)>>)>>} :
           rp \in Range(theme.resourcePaths)}

\* a caller (the route GET /:id/videos) has getThemeVideos list the videos
GetThemeVideos ==
    \E listFails \in SUBSET ListTargets :
        LET r == getThemeVideos(fs, theme, libraryRows, libraryInstances, listFails)
        IN  /\ last = NoCall
            /\ last' = [NoCall EXCEPT !.op = "getThemeVideos", !.listFails = listFails,
                                      !.threw = r.threw, !.videos = r.videos,
                                      !.status = HttpStatus(r)]
            /\ libraryInstances' = r.instances
            /\ UNCHANGED <<activeSessions, inflight, fs, theme, libraryRows, accounts, tasks, activeUploaders>>

\* a caller (the route GET /:id/statistics) has getThemeStatistics count the
\* videos
GetThemeStatistics ==
    /\ last = NoCall
    /\ last' = [NoCall EXCEPT !.op = "getThemeStatistics",
                              !.threw = getThemeStatistics(fs, theme, libraryRows, libraryInstances, {}).threw,
                              !.published = getThemeStatistics(fs, theme, libraryRows, libraryInstances, {}).published,
                              !.unpublished = getThemeStatistics(fs, theme, libraryRows, libraryInstances, {}).unpublished,
                              !.status = HttpStatus(getThemeStatistics(fs, theme, libraryRows, libraryInstances, {}))]
    /\ libraryInstances' = getThemeStatistics(fs, theme, libraryRows, libraryInstances, {}).instances
    /\ UNCHANGED <<activeSessions, inflight, fs, theme, libraryRows, accounts, tasks, activeUploaders>>

BatchCall(op, req, failMoves, r) ==
    [NoCall EXCEPT !.op = op, !.req = req, !.failMoves = failMoves, !.threw = r.threw,
                   !.total = r.total, !.done = r.done, !.failed = r.failed,
                   !.results = r.results, !.calls = r.calls, !.videos = r.videos,
                   !.eligible = r.eligible]

\* the route POST /:id/videos/archive, which has batchArchiveVideos archive the
\* paths of the body; a body without videoPaths is one more request
BatchArchiveVideos ==
    LET inventory == Inventory
    IN  /\ last = NoCall
        /\ \E req \in Requests(inventory), given \in BOOLEAN :
            \E failMoves \in SUBSET FailTargets(ArchiveFilter(inventory, req)) :
                LET a == ArchiveRoute(fs, theme, libraryRows, libraryInstances, given, req, failMoves)
                    r == a.r
                IN  /\ ~given => req = <<>>
                    /\ last' = [BatchCall("batchArchiveVideos", req, failMoves, r)
                                   EXCEPT !.status = a.status, !.pathsGiven = given]
                    /\ fs' = r.fs
                    /\ libraryInstances' = r.instances
                    /\ UNCHANGED <<activeSessions, inflight, theme, libraryRows, accounts, tasks, activeUploaders>>

\* the route POST /:id/videos/unarchive, which has batchUnarchiveVideos
\* unarchive the paths of the body
BatchUnarchiveVideos ==
    LET inventory == Inventory
    IN  /\ last = NoCall
        /\ \E req \in Requests(inventory), given \in BOOLEAN :
            \E failMoves \in SUBSET FailTargets(UnarchiveFilter(inventory, req)) :
                LET a == UnarchiveRoute(fs, theme, libraryRows, libraryInstances, given, req, failMoves)
                    r == a.r
                IN  /\ ~given => req = <<>>
                    /\ last' = [BatchCall("batchUnarchiveVideos", req, failMoves, r)
                                   EXCEPT !.status = a.status, !.pathsGiven = given]
                    /\ fs' = r.fs
                    /\ libraryInstances' = r.instances
                    /\ UNCHANGED <<activeSessions, inflight, theme, libraryRows, accounts, tasks, activeUploaders>>

\* the videoPaths of a publish request: paths the client is shown and a path
\* that matches nothing
PublishRequests(inventory) ==
    {SetToSeq(S) : S \in SetsUpTo({v.fullPath : v \in Range(inventory)} \cup {GhostPath},
                                  MaxReq)}

\* the accountIds arrays a client sends, an account twice included
AccountIdArrays == SeqsUpTo({1, 2}, MaxAccounts)

\* the route POST /:id/batch-publish, which has batchPublishThemeVideos create
\* the tasks; the UploadTask table is kept within MaxTasks rows; a body without
\* accountIds or without videoPaths is one more request
BatchPublishThemeVideos ==
    LET inventory == Inventory
    IN  /\ last = NoCall
        /\ \E accountIds \in AccountIdArrays, accountsGiven \in BOOLEAN :
            \E req \in PublishRequests(inventory), pathsGiven \in BOOLEAN :
                \E option \in {"undefined", "true", "false"} :
                    LET a == BatchPublishRoute(fs, theme, libraryRows, libraryInstances,
                                               tasks, accounts, accountIds, req, option)
                        r == a.r
                    IN  /\ ~accountsGiven => accountIds = <<>>
                        /\ ~pathsGiven => req = <<>>
                        /\ Len(r.rows) <= MaxTasks
                        /\ last' = [NoCall EXCEPT !.op = "batchPublishThemeVideos",
                                                  !.status = a.status,
                                                  !.accountsGiven = accountsGiven,
                                                  !.pathsGiven = pathsGiven,
                                                  !.req = req, !.accountIds = accountIds,
                                                  !.autoArchive = option, !.threw = r.threw,
                                                  !.videos = r.videos, !.tasks = r.tasks,
                                                  !.totalTasks = r.totalTasks,
                                                  !.accountCount = r.accountCount,
                                                  !.videoCount = r.videoCount]
                        /\ tasks' = r.rows
                        /\ libraryInstances' = r.instances
                        /\ fs' = r.fs
                        /\ UNCHANGED <<activeSessions, inflight, theme, libraryRows, accounts, activeUploaders>>

\* res.json(...): the route answers and the call's result is gone; the calls
\* are served one after the other
SendResponse ==
    /\ last # NoCall
    /\ last' = NoCall
    /\ UNCHANGED <<activeSessions, inflight, fs, theme, libraryRows, libraryInstances, accounts, tasks, activeUploaders>>

Next ==
    \/ GetThemeVideos
    \/ GetThemeStatistics
    \/ BatchArchiveVideos
    \/ BatchUnarchiveVideos
    \/ SendResponse

Spec == Init /\ [][Next]_vars

\* the publish calls, on a theme with a published and an unpublished video and
\* on no theme
PublishStarts ==
    {Start(Theme("published", <<Root(1, Food)>>), Mixed, Fresh, TRUE),
     Start(NoTheme, Fresh, Fresh, TRUE)}

\* account 2 is there or is not
InitPublish ==
    /\ \E st \in PublishStarts :
          /\ fs = st.fs
          /\ theme = st.theme
          /\ libraryRows = st.libraryRows
    /\ libraryInstances = <<>>
    /\ accounts \in {{1, 2}, {1}}
    /\ tasks = <<>>
    /\ activeUploaders = {}
    /\ activeSessions = <<>>
    /\ inflight = <<>>
    /\ last = NoCall

NextPublish ==
    \/ BatchPublishThemeVideos
    \/ SendResponse

SpecPublish == InitPublish /\ [][NextPublish]_vars

\* the task table after one publish call for account 1 and every video listed
PublishedRows(st) ==
    batchPublishThemeVideos(st.fs, st.theme, st.libraryRows, <<>>, <<>>, {1}, <<1>>,
        SetToSeq({v.fullPath :
                  v \in Range(getThemeVideos(st.fs, st.theme, st.libraryRows, <<>>, {}).videos)}),
        "undefined").rows

\* the execute calls, on themes whose videos each have a pending task and on no
\* theme
ExecuteStarts ==
    {Start(Theme("published", <<Root(1, Food)>>), Mixed, Fresh, TRUE),
     Start(NoTheme, Fresh, Fresh, TRUE)}

InitExecute ==
    /\ \E st \in ExecuteStarts :
          /\ fs = st.fs
          /\ theme = st.theme
          /\ libraryRows = st.libraryRows
          /\ tasks = PublishedRows(st)
    /\ libraryInstances = <<>>
    /\ accounts = {1}
    /\ activeUploaders = {}
    /\ activeSessions = <<>>
    /\ inflight = <<>>
    /\ last = NoCall

\* task ids a caller passes: those of the rows and one of no row
TaskIdArrays == SeqsUpTo(1..(Len(tasks) + 1), MaxTaskIds)

\* the backend moves the environment can make raise: none, or that of one
\* task's video
TaskFailMoves ==
    {{}} \cup {{<<tasks[i].libraryId, Normalize(tasks[i].resourcePath)>>} : i \in 1..Len(tasks)}

\* a caller has executeBatchPublish run the tasks it names; a call whose upload
\* never settles stays where it waits.  No upload is started for a task id of
\* no row and no move is made when autoArchive is false, so one choice of the
\* upload outcome and of the failing moves stands for all there.
ExecuteBatchPublish ==
    /\ last = NoCall
    /\ \E taskIds \in TaskIdArrays :
        \E outcomes \in [1..Len(taskIds) -> UploadOutcomes] :
            \E option \in {"undefined", "true", "false"} :
                \E failMoves \in TaskFailMoves :
                    /\ \A i \in 1..Len(taskIds) :
                          taskIds[i] > Len(tasks) => outcomes[i] = "success"
                    /\ option = "false" => failMoves = {}
                    /\ LET r == executeBatchPublish(fs, theme, libraryRows, libraryInstances,
                                                    tasks, activeUploaders, accounts, taskIds,
                                                    outcomes, option, failMoves)
                       IN  /\ last' = [NoCall EXCEPT !.op = "executeBatchPublish",
                                                     !.taskIds = taskIds,
                                                     !.autoArchive = option,
                                                     !.failMoves = failMoves, !.threw = r.threw,
                                                     !.hung = r.hung, !.results = r.results,
                                                     !.log = r.log]
                           /\ fs' = r.fs
                           /\ libraryInstances' = r.instances
                           /\ tasks' = r.rows
                           /\ activeUploaders' = r.active
                           /\ UNCHANGED <<activeSessions, inflight, theme, libraryRows, accounts>>

\* the calls of archiveVideo and unarchiveVideo themselves, on a theme with a
\* video in a folder named unpublished, on one with an archived video, and on
\* no theme
VideoStarts ==
    {Start(Theme("published", <<Root(1, Food)>>),
           Storage({Food \o <<"unpublished", "a.mp4">>, Food \o <<"b.mp4">>}), Fresh, TRUE),
     Start(Theme("published", <<Root(1, Food)>>), Mixed, Fresh, TRUE),
     Start(NoTheme, Mixed, Fresh, TRUE)}

InitVideo ==
    /\ \E st \in VideoStarts :
          /\ fs = st.fs
          /\ theme = st.theme
          /\ libraryRows = st.libraryRows
    /\ libraryInstances = <<>>
    /\ accounts = {1}
    /\ tasks = <<>>
    /\ activeUploaders = {}
    /\ activeSessions = <<>>
    /\ inflight = <<>>
    /\ last = NoCall

\* the videoPath arguments: the files of the library and a path of no file
VideoPaths(libraryId) ==
    {q \in DOMAIN fs[libraryId].files : Len(q) <= MaxDepth} \cup {GhostPath}

VideoCall(op, libraryId, videoPath, raises, r) ==
    [NoCall EXCEPT !.op = op, !.libraryId = libraryId, !.req = <<videoPath>>,
                   !.failMoves = IF raises THEN {<<libraryId, videoPath>>} ELSE {},
                   !.threw = IF r.ok THEN "" ELSE r.message,
                   !.calls = <<r.calls>>]

\* a caller (executeBatchPublish is one) has archiveVideo move one video
ArchiveVideo ==
    /\ last = NoCall
    /\ \E libraryId \in DOMAIN fs : \E videoPath \in VideoPaths(libraryId) :
          \E raises \in BOOLEAN :
              LET r == archiveVideo(fs, theme, libraryRows, libraryInstances, libraryId,
                                    videoPath, raises)
              IN  /\ last' = VideoCall("archiveVideo", libraryId, videoPath, raises, r)
                  /\ fs' = r.fs
                  /\ libraryInstances' = r.instances
                  /\ UNCHANGED <<activeSessions, inflight, theme, libraryRows, accounts, tasks, activeUploaders>>

\* a caller (batchUnarchiveVideos is one) has unarchiveVideo move one video
UnarchiveVideo ==
    /\ last = NoCall
    /\ \E libraryId \in DOMAIN fs : \E videoPath \in VideoPaths(libraryId) :
          \E raises \in BOOLEAN :
              LET r == unarchiveVideo(fs, theme, libraryRows, libraryInstances, libraryId,
                                      videoPath, raises)
              IN  /\ last' = VideoCall("unarchiveVideo", libraryId, videoPath, raises, r)
                  /\ fs' = r.fs
                  /\ libraryInstances' = r.instances
                  /\ UNCHANGED <<activeSessions, inflight, theme, libraryRows, accounts, tasks, activeUploaders>>

NextVideo ==
    \/ ArchiveVideo
    \/ UnarchiveVideo
    \/ SendResponse

SpecVideo == InitVideo /\ [][NextVideo]_vars

\* the three batch routes together, on a theme with two unpublished videos,
\* each with a task of account 1 already, and on no theme
BatchStarts ==
    {Start(Theme("published", <<Root(1, Food)>>), Fresh, Fresh, TRUE),
     Start(NoTheme, Fresh, Fresh, TRUE)}

InitBatch ==
    /\ \E st \in BatchStarts :
          /\ fs = st.fs
          /\ theme = st.theme
          /\ libraryRows = st.libraryRows
          /\ tasks = PublishedRows(st)
    /\ libraryInstances = <<>>
    /\ accounts = {1}
    /\ activeUploaders = {}
    /\ activeSessions = <<>>
    /\ inflight = <<>>
    /\ last = NoCall

NextBatch ==
    \/ BatchArchiveVideos
    \/ BatchUnarchiveVideos
    \/ BatchPublishThemeVideos
    \/ SendResponse

SpecBatch == InitBatch /\ [][NextBatch]_vars

\* the theme administration calls, with and without a theme row, the WebDAV
\* library active or not
ThemeStarts ==
    {Start(t, local, Fresh, webdavActive) :
        t \in {NoTheme, Theme("published", <<Root(1, Food)>>)},
        local \in {Mixed, Noted}, webdavActive \in BOOLEAN}

InitTheme ==
    /\ \E st \in ThemeStarts :
          /\ fs = st.fs
          /\ theme = st.theme
          /\ libraryRows = st.libraryRows
    /\ libraryInstances = <<>>
    /\ accounts = {1}
    /\ tasks = <<>>
    /\ activeUploaders = {}
    /\ activeSessions = <<>>
    /\ inflight = <<>>
    /\ last = NoCall

\* the folders a client names: one that is there, one that is not, a video
\* file, a file of no media type
FolderChoices == {Food, Food \o <<"missing">>, Food \o <<"b.mp4">>, Food \o <<"notes.txt">>}

RootChoices == {Root(l, q) : l \in DOMAIN libraryRows, q \in FolderChoices}

RootArrays == SeqsUpTo(RootChoices, MaxRoots)

ThemeCall(op, archiveFolderName, pathsGiven, paths, r) ==
    [NoCall EXCEPT !.op = op, !.archiveFolderName = archiveFolderName,
                   !.pathsGiven = pathsGiven,
                   !.roots = paths, !.threw = r.threw]

\* a caller (the route POST / is one, which passes no archiveFolderName) has
\* createTheme make the theme row
CreateTheme ==
    /\ last = NoCall
    /\ ~theme.exists
    /\ \E archiveFolderName \in {"undefined", "published"} :
        \E pathsGiven \in BOOLEAN : \E paths \in RootArrays :
            LET r == createTheme(libraryInstances, archiveFolderName, pathsGiven, paths)
            IN  /\ ~pathsGiven => paths = <<>>
                /\ last' = ThemeCall("createTheme", archiveFolderName, pathsGiven, paths, r)
                /\ theme' = r.theme
                /\ UNCHANGED <<activeSessions, inflight, fs, libraryRows, libraryInstances, accounts, tasks,
                               activeUploaders>>

\* a caller (the route PUT /:id) has updateTheme change the theme; name and
\* description are left out of the body
UpdateTheme ==
    /\ last = NoCall
    /\ \E archiveFolderName \in {"undefined", "published"} :
        \E pathsGiven \in BOOLEAN : \E paths \in RootArrays :
            LET r == updateTheme(theme, libraryInstances, archiveFolderName, pathsGiven, paths)
            IN  /\ ~pathsGiven => paths = <<>>
                /\ last' = ThemeCall("updateTheme", archiveFolderName, pathsGiven, paths, r)
                /\ theme' = r.theme
                /\ UNCHANGED <<activeSessions, inflight, fs, libraryRows, libraryInstances, accounts, tasks,
                               activeUploaders>>

\* a caller (the route POST /:id/paths) has addResourcePathToTheme attach one
\* root; the theme is kept within MaxRoots roots
AddResourcePathToTheme ==
    /\ last = NoCall
    /\ \E root \in RootChoices :
          LET r == addResourcePathToTheme(fs, theme, libraryRows, libraryInstances,
                                          root.libraryId, root.folderPath)
          IN  /\ Len(r.theme.resourcePaths) <= MaxRoots
              /\ last' = [NoCall EXCEPT !.op = "addResourcePathToTheme",
                                        !.libraryId = root.libraryId,
                                        !.roots = <<root>>, !.threw = r.threw]
              /\ theme' = r.theme
              /\ libraryInstances' = r.instances
              /\ UNCHANGED <<activeSessions, inflight, fs, libraryRows, accounts, tasks, activeUploaders>>

NextTheme ==
    \/ CreateTheme
    \/ UpdateTheme
    \/ AddResourcePathToTheme
    \/ SendResponse

SpecTheme == InitTheme /\ [][NextTheme]_vars

NextExecute ==
    \/ ExecuteBatchPublish
    \/ SendResponse

SpecExecute == InitExecute /\ [][NextExecute]_vars

----------------------------------------------------------------------------
(* Properties of the video inventory *)

ArchiveName == ArchiveFolderNameOf(theme)

\* the last component of dirname(V.fullPath)
ParentBasename(v) == PathBasename(PathDirname(v.fullPath))

Listed == last.op = "getThemeVideos" /\ last.threw = ""

\* C1 as stated: every entry getThemeVideos returns is published exactly when
\* the directory its fullPath lies in is named like the archive folder
C1_PositionalTruthAsStated ==
    Listed => \A v \in Range(last.videos) :
                  v.isPublished <=> ParentBasename(v) = ArchiveName

\* C1 amended: a published entry always lies in a directory named like the
\* archive folder; an unpublished entry lies directly in a resource root of its
\* library, and lies in a directory named like the archive folder only when
\* that root is itself named so
C1_PositionalTruth ==
    Listed => \A v \in Range(last.videos) :
                  /\ v.isPublished => ParentBasename(v) = ArchiveName
                  /\ ~v.isPublished =>
                        \E rp \in Range(theme.resourcePaths) :
                            /\ rp.libraryId = v.libraryId
                            /\ rp.folderPath = v.libraryPath
                            /\ ParentBasename(v) = ArchiveName
                                   => PathBasename(rp.folderPath) = ArchiveName

\* a listing with a published and an unpublished entry
C1_Witness ==
    /\ Listed
    /\ \E v, w \in Range(last.videos) : v.isPublished /\ ~w.isPublished

----------------------------------------------------------------------------
(* Properties of the batch archive and unarchive calls *)

BatchOps == {"batchArchiveVideos", "batchUnarchiveVideos"}

\* the attempt for the i-th video got as far as the backend move, which raised
MoveFailedAt(c, i) ==
    \E k \in 1..Len(c.calls[i]) : c.calls[i][k].fn = "move" /\ ~c.calls[i][k].ok

\* every requested path is the fullPath of a video the call may act on
AllEligible(c) ==
    /\ c.req # <<>>
    /\ \A q \in Range(c.req) : \E v \in Range(c.eligible) : v.fullPath = q

OneMoveFails(c) == Cardinality({i \in 1..Len(c.calls) : MoveFailedAt(c, i)}) = 1

\* the i-th attempt ended with a move that returned, and the file that was at
\* the video's fullPath in `pre` is at the move's target in `post`
MovedAt(c, i, pre, post) ==
    /\ c.calls[i] # <<>>
    /\ LET m == c.calls[i][Len(c.calls[i])]
       IN  /\ m.fn = "move" /\ m.ok
           /\ m.path = c.eligible[i].fullPath
           /\ IsFile(pre[m.libraryId], Normalize(m.path))
           /\ IsFile(post[m.libraryId], Normalize(m.target))
           /\ post[m.libraryId].files[Normalize(m.target)]
                  = pre[m.libraryId].files[Normalize(m.path)]

IsolatesTheFailure(c, pre, post) ==
    /\ c.threw = ""
    /\ c.total = Len(c.req)
    /\ Len(c.calls) = Len(c.eligible)
    /\ Len(c.results) = Len(c.eligible)
    /\ \A i \in 1..Len(c.results) :
          /\ c.results[i].path = c.eligible[i].fullPath
          /\ IF MoveFailedAt(c, i)
             THEN ~c.results[i].success /\ c.results[i].message # ""
             ELSE c.results[i].success /\ MovedAt(c, i, pre, post)

\* C2: a batch archive or unarchive call whose requested paths are all eligible
\* and in which exactly one backend move raises returns normally with total =
\* the number of requested paths; the video whose move raised is reported
\* success:false with a message; every other video, those after it included,
\* is attempted, moved and reported success:true
C2_PartialFailureIsolation ==
    [][(last'.op \in BatchOps /\ AllEligible(last') /\ OneMoveFails(last'))
          => IsolatesTheFailure(last', fs, fs')]_vars

\* an archive call for two videos where the move of the first raised and the
\* second was moved all the same
C2_Witness ==
    /\ last.op = "batchArchiveVideos"
    /\ AllEligible(last) /\ OneMoveFails(last)
    /\ Len(last.results) = 2
    /\ MoveFailedAt(last, 1)
    /\ last.results[2].success

\* the paths under which the videos an archive call acted on are listed as
\* published afterwards
ArchivedPaths(c, post, instances) ==
    {w.fullPath : w \in
        {x \in Range(getThemeVideos(post, theme, libraryRows, instances, {}).videos) :
            /\ x.isPublished
            /\ \E v \in Range(c.eligible) :
                  /\ x.libraryId = v.libraryId
                  /\ x.name = v.name
                  /\ x.libraryPath = PathJoin(v.libraryPath, <<ArchiveName>>)}}

\* the file `pre` had at v.fullPath is there in `post`, and the listing of
\* `post` has v.fullPath as unpublished
RestoredIn(v, pre, post, instances) ==
    /\ IsFile(pre[v.libraryId], Normalize(v.fullPath))
    /\ IsFile(post[v.libraryId], Normalize(v.fullPath))
    /\ post[v.libraryId].files[Normalize(v.fullPath)]
           = pre[v.libraryId].files[Normalize(v.fullPath)]
    /\ \E w \in Range(getThemeVideos(post, theme, libraryRows, instances, {}).videos) :
          w.fullPath = v.fullPath /\ w.libraryId = v.libraryId /\ ~w.isPublished

UnarchiveRestores(c, unarchived, pre) ==
    /\ unarchived.threw = ""
    /\ unarchived.failed = 0
    /\ unarchived.done >= 1
    /\ \A v \in Range(c.eligible) : RestoredIn(v, pre, unarchived.fs, unarchived.instances)

\* C3: when batchArchiveVideos on the fullPath of an unpublished video has
\* archived it, batchUnarchiveVideos on the path it is then listed under as
\* published puts the file back at the original fullPath, and getThemeVideos
\* lists it there with isPublished = false
C3_RoundTrip ==
    [][(/\ last'.op = "batchArchiveVideos"
        /\ Len(last'.req) = 1
        /\ last'.done >= 1
        /\ last'.failed = 0)
          => /\ ArchivedPaths(last', fs', libraryInstances') # {}
             /\ \A q \in ArchivedPaths(last', fs', libraryInstances') :
                   UnarchiveRestores(
                       last',
                       batchUnarchiveVideos(fs', theme, libraryRows, libraryInstances',
                                            <<q>>, {}),
                       fs)]_vars

\* an unarchive call has put back at food/a.mp4 the file that was there at the
\* start, so an archive call had moved it away before
C3_Witness ==
    /\ last.op = "batchUnarchiveVideos"
    /\ Len(last.req) = 1
    /\ last.done = 1
    /\ last.calls[1] # <<>>
    /\ LET m == last.calls[1][Len(last.calls[1])]
       IN  /\ m.fn = "move" /\ m.ok
           /\ Normalize(m.target) = Food \o <<"a.mp4">>
           /\ theme.resourcePaths[1].folderPath \in {Food, <<"food", "">>}
           /\ fs[m.libraryId].files[Food \o <<"a.mp4">>] = "A"

ListedPublished(c, q) == \E v \in Range(c.videos) : v.fullPath = q /\ v.isPublished

ListedUnpublished(c, q) == \E v \in Range(c.videos) : v.fullPath = q /\ ~v.isPublished

\* the call made no move of q and no createFolder for it, and has no
\* success:true result for it
NotActedOn(c, q) ==
    /\ \A i \in 1..Len(c.calls) :
          /\ c.eligible[i].fullPath # q
          /\ \A k \in 1..Len(c.calls[i]) :
                c.calls[i][k].fn = "move" => c.calls[i][k].path # q
    /\ \A i \in 1..Len(c.results) : ~(c.results[i].path = q /\ c.results[i].success)

\* C4 as stated: batchArchiveVideos neither moves nor creates a folder for a
\* requested path that is listed as published, and reports no success for it
C4_ArchivedPathExcludedAsStated ==
    last.op = "batchArchiveVideos" =>
        \A q \in Range(last.req) : ListedPublished(last, q) => NotActedOn(last, q)

\* C4 amended: the same for a requested path that is listed as published and
\* not also, through another resource root, as unpublished
C4_ArchivedPathExcluded ==
    last.op = "batchArchiveVideos" =>
        \A q \in Range(last.req) :
            (ListedPublished(last, q) /\ ~ListedUnpublished(last, q)) => NotActedOn(last, q)

\* an archive call asked for an archived path and an unpublished one, and
\* moved the unpublished one
C4_Witness ==
    /\ last.op = "batchArchiveVideos"
    /\ \E q \in Range(last.req) : ListedPublished(last, q) /\ ~ListedUnpublished(last, q)
    /\ last.done >= 1

\* the file `pre` had at v.fullPath is in the archive folder of v's root in
\* `post`, under v's name, and no longer at v.fullPath
InArchive(v, pre, post) ==
    LET archived == PathJoin(v.libraryPath, <<ArchiveName, v.name>>)
    IN  /\ IsFile(pre[v.libraryId], Normalize(v.fullPath))
        /\ IsFile(post[v.libraryId], archived)
        /\ post[v.libraryId].files[archived] = pre[v.libraryId].files[Normalize(v.fullPath)]
        /\ ~IsFile(post[v.libraryId], Normalize(v.fullPath))

\* a second call with the same paths moves nothing and leaves the storage as
\* the first call left it
SecondCallMovesNothing(c, second, post) ==
    /\ second.threw = ""
    /\ second.done = 0
    /\ second.fs = post
    /\ \A i \in 1..Len(second.calls) : \A k \in 1..Len(second.calls[i]) :
          second.calls[i][k].fn = "move" => ~second.calls[i][k].ok

\* no resource root is the archive folder of another root of the same library
NoRootIsAnArchiveFolder ==
    \A rp, other \in Range(theme.resourcePaths) :
        ~(/\ rp.libraryId = other.libraryId
          /\ Normalize(rp.folderPath) = PathJoin(other.folderPath, <<ArchiveName>>))

AttemptSucceeded(c, i) ==
    /\ c.calls[i] # <<>>
    /\ c.calls[i][Len(c.calls[i])].fn = "move"
    /\ c.calls[i][Len(c.calls[i])].ok

\* the videos the call is to attempt: those listed under a requested path as
\* unpublished (archive) or as published (unarchive)
ToAttempt(c) ==
    SelectSeq(c.videos,
              LAMBDA v : /\ v.fullPath \in Range(c.req)
                         /\ v.isPublished = (c.op = "batchUnarchiveVideos"))

Unmatched(c, q) == \A v \in Range(ToAttempt(c)) : v.fullPath # q

\* C6: a batch archive or unarchive call that returns has total = the number of
\* requested paths, one results entry per video attempted, archived (resp.
\* unarchived) = the attempts that succeeded and failed = the attempts that
\* raised; a requested path matching no eligible video has no results entry
\* and is not among the failed
C6_ResultContract ==
    (last.op \in BatchOps /\ last.threw = "") =>
        /\ last.total = Len(last.req)
        /\ last.eligible = ToAttempt(last)
        /\ Len(last.calls) = Len(ToAttempt(last))
        /\ Len(last.results) = Len(ToAttempt(last))
        /\ \A i \in 1..Len(last.results) :
              /\ last.results[i].path = ToAttempt(last)[i].fullPath
              /\ last.results[i].success = AttemptSucceeded(last, i)
        /\ last.done = Cardinality({i \in 1..Len(last.calls) : AttemptSucceeded(last, i)})
        /\ last.failed = Cardinality({i \in 1..Len(last.calls) : ~AttemptSucceeded(last, i)})
        /\ \A q \in Range(last.req) :
              Unmatched(last, q) => \A i \in 1..Len(last.results) : last.results[i].path # q

\* a call for a path that matches nothing and a path whose video was moved:
\* total 2, one result, nothing failed
C6_Witness ==
    /\ last.op \in BatchOps /\ last.threw = ""
    /\ \E q \in Range(last.req) : Unmatched(last, q)
    /\ last.total = 2
    /\ last.done = 1
    /\ last.failed = 0

----------------------------------------------------------------------------
(* Properties of getThemeVideos under failing listings *)

\* the listing of the root's main folder fails: the directory listing raises,
\* or the library cannot be had
MainListingFails(rp) ==
    \/ <<rp.libraryId, Normalize(rp.folderPath)>> \in last.listFails
    \/ ~libraryRows[rp.libraryId].isActive

\* the listing of the root's archive folder fails, or the folder is not there
ArchiveListingFails(rp) ==
    \/ <<rp.libraryId, PathJoin(rp.folderPath, <<ArchiveName>>)>> \in last.listFails
    \/ ~IsDir(fs[rp.libraryId], PathJoin(rp.folderPath, <<ArchiveName>>))

\* the entries the listing has from the root's main folder, from its archive folder
MainEntries(rp) ==
    {v \in Range(last.videos) :
        v.libraryId = rp.libraryId /\ v.libraryPath = rp.folderPath /\ ~v.isPublished}

ArchiveEntries(rp) ==
    {v \in Range(last.videos) :
        /\ v.libraryId = rp.libraryId
        /\ v.libraryPath = PathJoin(rp.folderPath, <<ArchiveName>>)
        /\ v.isPublished}

\* the names of the video files that lie directly in a directory
VideosIn(libraryId, dir) ==
    {n \in VideoNames : IsFile(fs[libraryId], Normalize(dir) \o <<n>>)}

\* C7: getThemeVideos on an existing theme never raises; a root whose archive
\* folder is missing or whose archive listing fails gives no published entry
\* and still its main-folder videos; a root whose main-folder listing or
\* library lookup fails gives no entry at all; every other root gives all its
\* videos
C7_RootTolerance ==
    (last.op = "getThemeVideos" /\ theme.exists) =>
        /\ last.threw = ""
        /\ \A rp \in Range(theme.resourcePaths) :
              IF MainListingFails(rp)
              THEN MainEntries(rp) = {} /\ ArchiveEntries(rp) = {}
              ELSE /\ {v.name : v \in MainEntries(rp)} = VideosIn(rp.libraryId, rp.folderPath)
                   /\ IF ArchiveListingFails(rp)
                      THEN ArchiveEntries(rp) = {}
                      ELSE {v.name : v \in ArchiveEntries(rp)}
                               = VideosIn(rp.libraryId,
                                          PathJoin(rp.folderPath, <<ArchiveName>>))

----------------------------------------------------------------------------
(* Properties of the Resource Store calls *)

\* what the library has at a path: the file's identity, or that there is a
\* directory, or nothing
At(lfs, q) ==
    IF IsFile(lfs, q) THEN lfs.files[q] ELSE IF IsDir(lfs, q) THEN "directory" ELSE "nothing"

\* the move m, made on the storage `pre`, must fail: its target is there
\* already or its source is not
MustFail(m, pre) ==
    \/ Exists(pre[m.libraryId], Normalize(m.target))
    \/ ~Exists(pre[m.libraryId], Normalize(m.path))

\* C8: on either backend a move whose target exists already (or whose source
\* is absent) fails and leaves source and target as they were; seen at the
\* move of the first video of a batch call, which acts on the storage as it
\* was before the call
C8_MoveNeverOverwrites ==
    [][(/\ last'.op \in BatchOps
        /\ last'.calls # <<>>
        /\ last'.calls[1] # <<>>
        /\ last'.calls[1][Len(last'.calls[1])].fn = "move"
        /\ MustFail(last'.calls[1][Len(last'.calls[1])], fs))
          => LET m == last'.calls[1][Len(last'.calls[1])]
             IN  /\ ~m.ok
                 /\ ~last'.results[1].success
                 /\ At(fs'[m.libraryId], Normalize(m.target))
                        = At(fs[m.libraryId], Normalize(m.target))
                 /\ At(fs'[m.libraryId], Normalize(m.path))
                        = At(fs[m.libraryId], Normalize(m.path))]_vars

\* the archive folder of the directory a video lies in
ArchivePathOf(v) == PathJoin(PathDirname(v.fullPath), <<ArchiveName>>)

IsArchiveMove(m, v) ==
    /\ m.fn = "move"
    /\ m.libraryId = v.libraryId
    /\ m.path = v.fullPath
    /\ m.target = PathJoin(ArchivePathOf(v), <<PathBasename(v.fullPath)>>)

\* the Resource Store calls cs made for the video v: getInfo on the archive
\* folder; createFolder on it exactly when getInfo raised; the move last, and
\* only when what came before it returned
ChecksThenCreatesThenMoves(cs, v) ==
    /\ Len(cs) >= 2
    /\ cs[1].fn = "getInfo" /\ cs[1].libraryId = v.libraryId /\ cs[1].path = ArchivePathOf(v)
    /\ IF cs[1].ok
       THEN Len(cs) = 2 /\ IsArchiveMove(cs[2], v)
       ELSE /\ cs[2].fn = "createFolder"
            /\ cs[2].libraryId = v.libraryId
            /\ cs[2].path = ArchivePathOf(v)
            /\ IF cs[2].ok THEN Len(cs) = 3 /\ IsArchiveMove(cs[3], v) ELSE Len(cs) = 2

\* for the first video of a call the storage is as it was before the call:
\* getInfo returns exactly when the archive folder is there, and a folder that
\* was not there has been created when the move is made
CreatesMissingFolderFirst(cs, v, pre, post) ==
    /\ cs[1].ok = Exists(pre[v.libraryId], ArchivePathOf(v))
    /\ ~Exists(pre[v.libraryId], ArchivePathOf(v)) =>
          /\ cs[2].fn = "createFolder" /\ cs[2].ok
          /\ cs[3].fn = "move"
          /\ IsDir(post[v.libraryId], ArchivePathOf(v))

\* C9: for each video it archives, archiveVideo calls getInfo on the archive
\* folder first, createFolder only when getInfo raised, and move(fullPath,
\* archivePath/name) only after that; when the archive folder is not there
\* yet, the first archive creates it before moving
C9_EnsureFolderThenMove ==
    [][last'.op = "batchArchiveVideos"
          => /\ \A i \in 1..Len(last'.calls) :
                   ChecksThenCreatesThenMoves(last'.calls[i], last'.eligible[i])
             /\ last'.calls # <<>> =>
                   CreatesMissingFolderFirst(last'.calls[1], last'.eligible[1], fs, fs')]_vars

\* an archive call that found no archive folder, created it and then moved
C9_Witness ==
    /\ last.op = "batchArchiveVideos"
    /\ last.calls # <<>>
    /\ Len(last.calls[1]) = 3
    /\ ~last.calls[1][1].ok
    /\ last.calls[1][2].fn = "createFolder" /\ last.calls[1][2].ok
    /\ last.calls[1][3].fn = "move" /\ last.calls[1][3].ok

----------------------------------------------------------------------------
(* Properties of batchPublishThemeVideos *)

\* the inventory entries whose fullPath is among the requested paths
Matched(c) == SelectSeq(c.videos, LAMBDA v : v.fullPath \in Range(c.req))

\* the k-th returned task is for the account and the video given, carries the
\* flag given, and names a new row of the UploadTask table that is for them too
TaskIsFor(c, k, accountId, video, flag, before, after) ==
    /\ c.tasks[k].accountId = accountId
    /\ c.tasks[k].videoPath = video.fullPath
    /\ c.tasks[k].videoName = video.name
    /\ c.tasks[k].libraryId = video.libraryId
    /\ c.tasks[k].autoArchive = flag
    /\ c.tasks[k].taskId = Len(before) + k
    /\ after[c.tasks[k].taskId].platformId = accountId
    /\ after[c.tasks[k].taskId].resourcePath = video.fullPath
    /\ after[c.tasks[k].taskId].libraryId = video.libraryId
    /\ after[c.tasks[k].taskId].status = "pending"

FansOut(c, before, after) ==
    /\ c.accountCount = Len(c.accountIds)
    /\ c.videoCount = Len(Matched(c))
    /\ c.totalTasks = Len(c.accountIds) * Len(Matched(c))
    /\ Len(c.tasks) = c.totalTasks
    /\ Len(after) = Len(before) + c.totalTasks
    /\ SubSeq(after, 1, Len(before)) = before
    /\ \A i \in 1..Len(c.accountIds) : \A j \in 1..Len(Matched(c)) :
          TaskIsFor(c, (i - 1) * Len(Matched(c)) + j, c.accountIds[i], Matched(c)[j],
                    c.autoArchive # "false", before, after)

\* C10: a batchPublishThemeVideos call that returns has created one upload task
\* for each pair of an entry of accountIds and an inventory entry whose
\* fullPath is requested, published or not, and no other; totalTasks =
\* accountCount * videoCount with accountCount the length of accountIds and
\* videoCount the number of those entries; every returned task carries
\* autoArchive, true unless the request said false
C10_PublishFanOut ==
    [][(last'.op = "batchPublishThemeVideos" /\ last'.threw = "")
          => FansOut(last', tasks, tasks')]_vars

\* two accounts, a published and an unpublished video, autoArchive left out:
\* four tasks, each with autoArchive true
C10_Witness ==
    /\ last.op = "batchPublishThemeVideos" /\ last.threw = ""
    /\ last.accountIds = <<1, 2>>
    /\ last.autoArchive = "undefined"
    /\ last.totalTasks = 4
    /\ \E v, w \in Range(Matched(last)) : v.isPublished /\ ~w.isPublished
    /\ \A k \in 1..4 : last.tasks[k].autoArchive

\* the error a publish request must end with, "" when it has none of the four
\* defects; the first defect in the order theme, accounts, videos, match decides
PublishDefect(accountIds, videoPaths) ==
    IF ~theme.exists THEN ThemeNotFound
    ELSE IF accountIds = <<>> THEN "no account given"
    ELSE IF videoPaths = <<>> THEN "no video given"
    ELSE IF \A v \in Range(Inventory) : v.fullPath \notin Range(videoPaths)
    THEN "no matching video"
    ELSE ""

\* C11: batchPublishThemeVideos raises a different error for each of theme not
\* found, empty accountIds, empty videoPaths and no inventory video matching
\* videoPaths, and in each of these cases creates no upload task
C11_PublishValidation ==
    [][last'.op = "batchPublishThemeVideos"
          => /\ Cardinality({ThemeNotFound, "no account given", "no video given",
                             "no matching video", ""}) = 5
             /\ PublishDefect(last'.accountIds, last'.req) # ""
                   => /\ last'.threw = PublishDefect(last'.accountIds, last'.req)
                      /\ last'.tasks = <<>>
                      /\ tasks' = tasks]_vars

\* with tasks in the table already, a request whose paths match no video has
\* been refused
C11_Witness ==
    /\ last.op = "batchPublishThemeVideos"
    /\ last.threw = "no matching video"
    /\ last.accountIds # <<>>
    /\ last.req # <<>>
    /\ tasks # <<>>

\* the files of library l that are no longer where they were
MovedAway(l) == {q \in DOMAIN fs[l].files : q \notin DOMAIN fs'[l].files
                                            \/ fs'[l].files[q] # fs[l].files[q]}

\* the turns of the loop whose upload resolved with success true
UploadedTurns(log) == {i \in 1..Len(log) : log[i].upload = "success"}

\* C12: executeBatchPublish calls archiveVideo for a task's video only after
\* executeTask for that task returned success true, and only when autoArchive
\* is true; an upload that fails, throws or never completes moves no file
C12_ArchiveOnlyAfterSuccess ==
    [][last'.op = "executeBatchPublish"
          => /\ \A i \in 1..Len(last'.log) :
                   (last'.log[i].calls # <<>> \/ last'.log[i].statusAtArchive # "")
                      => /\ last'.log[i].upload = "success"
                         /\ last'.log[i].statusAtArchive = "success"
                         /\ last'.autoArchive # "false"
             /\ \A l \in DOMAIN fs : \A q \in MovedAway(l) :
                   /\ last'.autoArchive # "false"
                   /\ \E i \in UploadedTurns(last'.log) :
                         /\ tasks[last'.log[i].taskId].libraryId = l
                         /\ Normalize(tasks[last'.log[i].taskId].resourcePath) = q
             /\ (UploadedTurns(last'.log) = {}) => fs' = fs]_vars

\* one upload failed and moved nothing, the next succeeded and its video was
\* moved
C12_Witness ==
    /\ last.op = "executeBatchPublish"
    /\ Len(last.log) = 2
    /\ last.log[1].upload = "failure"
    /\ last.log[1].calls = <<>>
    /\ last.log[2].upload = "success"
    /\ \E k \in 1..Len(last.log[2].calls) :
          last.log[2].calls[k].fn = "move" /\ last.log[2].calls[k].ok

\* what getThemeVideos would list after the step
InventoryAfter == getThemeVideos(fs', theme', libraryRows', libraryInstances', {}).videos

\* C13: batchPublishThemeVideos writes nothing to the Resource Store: every
\* video is listed at the same place with the same isPublished before and after
\* the call, whatever autoArchive is
C13_PublishWritesNothing ==
    [][last'.op = "batchPublishThemeVideos"
          => /\ fs' = fs
             /\ InventoryAfter = Inventory]_vars

\* tasks flagged autoArchive were created for an unpublished video
C13_Witness ==
    /\ last.op = "batchPublishThemeVideos"
    /\ last.threw = ""
    /\ \E i \in 1..Len(last.tasks) :
          /\ last.tasks[i].autoArchive
          /\ \E v \in Range(Inventory) :
                v.fullPath = last.tasks[i].videoPath /\ ~v.isPublished

\* the counts the next getThemeStatistics call would return
StatisticsAfter == getThemeStatistics(fs', theme', libraryRows', libraryInstances', {})

StatisticsBefore == getThemeStatistics(fs, theme, libraryRows, libraryInstances, {})

\* the moves the step's call reports as done
MovesDone == CountBySuccess(last'.results, TRUE)

\* getThemeStatistics returns the sizes of the two isPublished classes of the
\* inventory of the moment, which add up to the number of entries
CountsThePartition ==
    last'.op = "getThemeStatistics" /\ last'.threw = ""
       => /\ last'.published = Len(SelectSeq(Inventory, LAMBDA v : v.isPublished))
          /\ last'.unpublished = Len(SelectSeq(Inventory, LAMBDA v : ~v.isPublished))
          /\ last'.published + last'.unpublished = Len(Inventory)

\* every move an archive call made took one from unpublished to published, and
\* every move an unarchive call made one the other way
EachMoveShiftsOne ==
    /\ last'.op = "batchArchiveVideos" /\ last'.threw = ""
          => /\ StatisticsAfter.published = StatisticsBefore.published + MovesDone
             /\ StatisticsAfter.unpublished = StatisticsBefore.unpublished - MovesDone
    /\ last'.op = "batchUnarchiveVideos" /\ last'.threw = ""
          => /\ StatisticsAfter.published = StatisticsBefore.published - MovesDone
             /\ StatisticsAfter.unpublished = StatisticsBefore.unpublished + MovesDone

\* C14: getThemeStatistics returns the partition counts of getThemeVideos by
\* isPublished at call time, published + unpublished is the number of inventory
\* entries, and nothing is cached, so every archive or unarchive move changes
\* each of the two counts by exactly one at the next call
C14_StatisticsFollowMoves == [][CountsThePartition /\ EachMoveShiftsOne]_vars

\* the requested accounts, in request order, that have a PlatformAccount row
KnownAccounts(accountIds) == SelectSeq(accountIds, LAMBDA a : a \in accounts)

\* C15: an error for one (account, video) pair of the batch publish loops is
\* caught there: a createTask failure for one pair neither leaves
\* batchPublishThemeVideos as an exception nor keeps the remaining pairs from
\* getting their task
C15_PublishItemErrorsCaught ==
    [][(last'.op = "batchPublishThemeVideos"
          /\ PublishDefect(last'.accountIds, last'.req) = "")
          => /\ last'.threw = ""
             /\ Len(tasks') - Len(tasks)
                   = Len(KnownAccounts(last'.accountIds))
                     * Len(PublishFilter(Inventory, last'.req))]_vars

\* a required array of the body is absent or empty
LacksRequired(call) ==
    \/ call.op = "batchPublishThemeVideos"
          /\ (~call.accountsGiven \/ call.accountIds = <<>>
              \/ ~call.pathsGiven \/ call.req = <<>>)
    \/ call.op \in {"batchArchiveVideos", "batchUnarchiveVideos"}
          /\ (~call.pathsGiven \/ call.req = <<>>)

\* C16: a request that lacks a required field (empty accountIds or videoPaths
\* on POST batch-publish, empty videoPaths on archive and unarchive) is
\* answered at once with HTTP 400 and the operation is not attempted
C16_MissingFieldsAre400 ==
    [][LacksRequired(last')
          => /\ last'.status = BadRequest
             /\ fs' = fs
             /\ tasks' = tasks
             /\ last'.calls = <<>>]_vars

\* the Resource Store after the calls of a log that returned, one after the other
RECURSIVE Replay(_, _)
Replay(f, calls) ==
    IF calls = <<>> THEN f
    ELSE LET c == Head(calls)
             type == libraryRows[c.libraryId].type
         IN  Replay(IF c.fn = "createFolder" /\ c.ok
                    THEN [f EXCEPT ![c.libraryId] = LibCreateFolder(type, @, c.path).fs]
                    ELSE IF c.fn = "move" /\ c.ok
                    THEN [f EXCEPT ![c.libraryId] = LibMove(type, @, c.path, c.target, FALSE).fs]
                    ELSE f,
                    Tail(calls))

RECURSIVE Flatten(_)
Flatten(logs) == IF logs = <<>> THEN <<>> ELSE Head(logs) \o Flatten(Tail(logs))

\* the entries of a listing of store f that show the file `id` of library l
EntriesOf(inv, f, l, id) ==
    {k \in 1..Len(inv) : /\ inv[k].libraryId = l
                         /\ IsFile(f[l], Normalize(inv[k].fullPath))
                         /\ f[l].files[Normalize(inv[k].fullPath)] = id}

\* the videos the call reports as archived
ArchivedBy(c) == {c.eligible[i] : i \in {j \in 1..Len(c.results) : c.results[j].success}}

\* the next listing shows the moved file v once, in the archive folder of its
\* root and as published, and nothing at the path it left
ListedOnceInArchive(v) ==
    /\ \A e \in Range(InventoryAfter) :
          ~(e.libraryId = v.libraryId /\ Normalize(e.fullPath) = Normalize(v.fullPath))
    /\ \E k \in 1..Len(InventoryAfter) :
          /\ EntriesOf(InventoryAfter, fs', v.libraryId,
                       fs[v.libraryId].files[Normalize(v.fullPath)]) = {k}
          /\ InventoryAfter[k].isPublished
          /\ Normalize(InventoryAfter[k].fullPath)
                = PathJoin(v.libraryPath, <<ArchiveName, v.name>>)

\* whenever a listing could run between two Resource Store calls of the archive
\* call, it shows the file v exactly once
ListedOnceThroughout(v, calls) ==
    \A n \in 0..Len(calls) :
        Cardinality(EntriesOf(
            getThemeVideos(Replay(fs, SubSeq(calls, 1, n)), theme, libraryRows,
                           libraryInstances', {}).videos,
            Replay(fs, SubSeq(calls, 1, n)), v.libraryId,
            fs[v.libraryId].files[Normalize(v.fullPath)])) = 1

ArchivedCleanly ==
    /\ Replay(fs, Flatten(last'.calls)) = fs'
    /\ \A v \in ArchivedBy(last') :
          /\ ListedOnceInArchive(v)
          /\ ListedOnceThroughout(v, Flatten(last'.calls))

MoveAttempted(c) ==
    \E i \in 1..Len(c.calls) : \E k \in 1..Len(c.calls[i]) : c.calls[i][k].fn = "move"

\* C18: unarchiveVideo attempts the move only when the basename of the video's
\* directory equals archiveFolderName; for every other directory, one whose
\* name merely ends with it ("unpublished" for "published") included, the call
\* fails with an error and no file is moved
C18_UnarchiveOnlyFromArchiveFolder ==
    [][last'.op = "unarchiveVideo"
          => /\ MoveAttempted(last')
                   => PathBasename(PathDirname(last'.req[1])) = ArchiveName
             /\ PathBasename(PathDirname(last'.req[1])) # ArchiveName
                   => last'.threw # "" /\ fs' = fs]_vars

\* the store an archive or unarchive call has reached when it turns to its
\* i-th video: every call for the videos before has returned
StoreBefore(c, i) == Replay(fs, Flatten(SubSeq(c.calls, 1, i - 1)))

\* the Resource Store calls the i-th video gets when it is handled alone on
\* the store the videos before it left
CallsAlone(c, i) ==
    IF c.op = "batchArchiveVideos"
    THEN archiveVideo(StoreBefore(c, i), theme, libraryRows, libraryInstances',
                      c.eligible[i].libraryId, c.eligible[i].fullPath,
                      Raises(c.eligible[i], c.failMoves)).calls
    ELSE unarchiveVideo(StoreBefore(c, i), theme, libraryRows, libraryInstances',
                        c.eligible[i].libraryId, c.eligible[i].fullPath,
                        Raises(c.eligible[i], c.failMoves)).calls

\* the videos are handled in order and each on the store its predecessor left
OneVideoAtATime(c) ==
    /\ Len(c.results) = Len(c.eligible)
    /\ Len(c.calls) = Len(c.eligible)
    /\ \A i \in 1..Len(c.eligible) :
          /\ c.results[i].path = c.eligible[i].fullPath
          /\ c.calls[i] = CallsAlone(c, i)
    /\ Replay(fs, Flatten(c.calls)) = fs'

\* the pairs a publish call goes through, account by account
PairsOf(c) == AccountVideoPairs(c.accountIds, PublishFilter(Inventory, c.req))

\* the rows a publish call added
RowsAdded == SubSeq(tasks', Len(tasks) + 1, Len(tasks'))

\* the tasks are created in the order of the pairs, each after the one before:
\* row k is that of pair k, and a call that failed at a pair created the rows
\* of the pairs before it and no other
OnePairAtATime(c) ==
    /\ Len(RowsAdded) <= Len(PairsOf(c))
    /\ \A k \in 1..Len(RowsAdded) :
          /\ RowsAdded[k].platformId = PairsOf(c)[k].accountId
          /\ RowsAdded[k].resourcePath = PairsOf(c)[k].video.fullPath
    /\ c.threw = ""
          => /\ Len(c.tasks) = Len(PairsOf(c))
             /\ \A k \in 1..Len(c.tasks) : c.tasks[k].taskId = Len(tasks) + k
    /\ c.threw = "createTask failed"
          => PairsOf(c)[Len(RowsAdded) + 1].accountId \notin accounts

\* C19: within one batch archive, unarchive or publish call the items are
\* processed strictly one after the other: the calls for item i+1 are issued
\* only after every call for item i has completed, so at most one move or
\* createFolder is in flight
C19_ItemsInSequence ==
    [][/\ (last'.op \in {"batchArchiveVideos", "batchUnarchiveVideos"} /\ last'.threw = "")
             => OneVideoAtATime(last')
       /\ (last'.op = "batchPublishThemeVideos" /\ PublishDefect(last'.accountIds, last'.req) = "")
             => OnePairAtATime(last')]_vars

\* two videos were archived: the first call created the archive folder, the
\* second found it
C19_Witness ==
    /\ last.op = "batchArchiveVideos"
    /\ Len(last.calls) = 2
    /\ \E k \in 1..Len(last.calls[1]) :
          last.calls[1][k].fn = "createFolder" /\ last.calls[1][k].ok
    /\ last.calls[2][1].fn = "getInfo" /\ last.calls[2][1].ok
    /\ last.results[1].success /\ last.results[2].success

\* the root resolves to a directory of a library that can be reached
ResolvesToDirectory(rp) ==
    /\ rp.libraryId \in DOMAIN libraryRows
    /\ libraryRows[rp.libraryId].isActive
    /\ IsDir(fs[rp.libraryId], Normalize(rp.folderPath))

\* the roots the step attached
Attached ==
    IF last'.op = "addResourcePathToTheme"
    THEN {theme'.resourcePaths[i] :
              i \in (Len(theme.resourcePaths) + 1)..Len(theme'.resourcePaths)}
    ELSE IF last'.op \in {"createTheme", "updateTheme"} /\ last'.pathsGiven
    THEN Range(theme'.resourcePaths)
    ELSE {}

\* C20: whichever operation attaches a resource root to a theme (createTheme,
\* updateTheme with resourcePaths, addResourcePathToTheme), the root was
\* validated to resolve to an existing directory when it was added
C20_RootsValidated == [][\A rp \in Attached : ResolvesToDirectory(rp)]_vars

----------------------------------------------------------------------------
(* C21 *)

\* the root the addResourcePathToTheme call of the step named
RootNamed == last'.roots[1]

\* it names a directory of the library's storage
NamesDirectory(rp) == IsDir(fs[rp.libraryId], Normalize(rp.folderPath))

\* C21: addResourcePathToTheme makes sure the path is a folder and not a file:
\* for a path that resolves to a regular file, of a media extension or not, or
\* that does not exist, the call fails and adds no resource root to the theme
C21_FolderNotFile ==
    [][(last'.op = "addResourcePathToTheme" /\ ~NamesDirectory(RootNamed))
          => (last'.threw # "" /\ theme' = theme)]_vars

----------------------------------------------------------------------------
(* UploadService.executeTask and cancelTask, one await at a time.  The execute
   route starts executeTask and answers without waiting for it, so calls for
   one task overlap; each call is a record of inflight, pc naming the await it
   stands at. *)

UploadCall(op, taskId, pc) ==
    [op |-> op, taskId |-> taskId, pc |-> pc, seen |-> "", registered |-> FALSE,
     success |-> FALSE, threw |-> FALSE]

\* the calls of inflight that hold the uploader stored under taskId
Registered(calls, taskId) ==
    {c \in DOMAIN calls : calls[c].taskId = taskId /\ calls[c].registered}

\* activeUploaders.set(taskId, uploader) by call c: the entry of the key is
\* replaced
SetUploader(calls, c) ==
    [d \in DOMAIN calls |->
        IF calls[d].taskId = calls[c].taskId
        THEN [calls[d] EXCEPT !.registered = (d = c)] ELSE calls[d]]

\* activeUploaders.delete(taskId): whichever uploader is stored goes
DeleteUploader(calls, taskId) ==
    [d \in DOMAIN calls |->
        IF calls[d].taskId = taskId THEN [calls[d] EXCEPT !.registered = FALSE]
        ELSE calls[d]]

\* the throw that follows getTask, "" when executeTask goes on
ExecuteRefusal(rows, known, taskId) ==
    IF taskId \notin 1..Len(rows) THEN "no such task"
    ELSE IF rows[taskId].status = "processing" THEN "task is running"
    ELSE IF rows[taskId].status = "success" THEN "task is done"
    ELSE IF rows[taskId].platformId \notin known THEN "no such account"
    ELSE ""

StatusSeen(rows, taskId) ==
    IF taskId \in 1..Len(rows) THEN rows[taskId].status ELSE "none"

\* POST /tasks/:id/execute: executeTask is started, not awaited
ExecuteRoute ==
    /\ Len(inflight) < MaxCalls
    /\ \E taskId \in 1..(Len(tasks) + 1) :
          inflight' = Append(inflight, UploadCall("executeTask", taskId, "getTask"))
    /\ UNCHANGED <<fs, theme, libraryRows, libraryInstances, accounts, tasks,
                   activeUploaders, activeSessions, last>>

\* steps 1 to 3: getTask answers, the status checks and the account lookup
ExecuteGetTask ==
    \E c \in DOMAIN inflight :
        /\ inflight[c].pc = "getTask"
        /\ inflight' = [inflight EXCEPT
              ![c].seen = StatusSeen(tasks, inflight[c].taskId),
              ![c].pc = IF ExecuteRefusal(tasks, accounts, inflight[c].taskId) = ""
                        THEN "update" ELSE "caught"]
        /\ UNCHANGED <<fs, theme, libraryRows, libraryInstances, accounts, tasks,
                       activeUploaders, activeSessions, last>>

\* step 4: updateTaskStatus(taskId, 'processing')
ExecuteMarkProcessing ==
    \E c \in DOMAIN inflight :
        /\ inflight[c].pc = "update"
        /\ tasks' = updateTaskStatus(tasks, inflight[c].taskId, "processing")
        /\ inflight' = [inflight EXCEPT ![c].pc = "register"]
        /\ UNCHANGED <<fs, theme, libraryRows, libraryInstances, accounts,
                       activeUploaders, activeSessions, last>>

\* steps 5 to 8: the uploader is made and stored, upload is started
ExecuteRegister ==
    \E c \in DOMAIN inflight :
        /\ inflight[c].pc = "register"
        /\ activeUploaders' = activeUploaders \cup {inflight[c].taskId}
        /\ inflight' = [SetUploader(inflight, c) EXCEPT ![c].pc = "upload"]
        /\ UNCHANGED <<fs, theme, libraryRows, libraryInstances, accounts, tasks,
                       activeSessions, last>>

\* uploader.upload settles: with success true or false, or it rejects
ExecuteUploadSettles ==
    \E c \in DOMAIN inflight :
        /\ inflight[c].pc = "upload"
        /\ \E outcome \in UploadOutcomes \ {"hangs"} :
              inflight' = [inflight EXCEPT
                  ![c].pc = CASE outcome = "success" -> "markSuccess"
                              [] outcome = "failure" -> "markFailed"
                              [] OTHER -> "caught"]
        /\ UNCHANGED <<fs, theme, libraryRows, libraryInstances, accounts, tasks,
                       activeUploaders, activeSessions, last>>

\* step 9: updateTaskStatus(taskId, 'success' or 'failed')
ExecuteMarkResult ==
    \E c \in DOMAIN inflight :
        /\ inflight[c].pc \in {"markSuccess", "markFailed"}
        /\ tasks' = updateTaskStatus(tasks, inflight[c].taskId,
                        IF inflight[c].pc = "markSuccess" THEN "success" ELSE "failed")
        /\ inflight' = [inflight EXCEPT ![c].pc = "delete",
                                        ![c].success = (inflight[c].pc = "markSuccess")]
        /\ UNCHANGED <<fs, theme, libraryRows, libraryInstances, accounts,
                       activeUploaders, activeSessions, last>>

\* the catch block: updateTaskStatus(taskId, 'failed'), which raises in its
\* turn when the task has no row, and then executeTask rejects
ExecuteCatch ==
    \E c \in DOMAIN inflight :
        /\ inflight[c].pc = "caught"
        /\ IF inflight[c].taskId \in 1..Len(tasks)
           THEN /\ tasks' = updateTaskStatus(tasks, inflight[c].taskId, "failed")
                /\ inflight' = [inflight EXCEPT ![c].pc = "delete"]
           ELSE /\ tasks' = tasks
                /\ inflight' = [inflight EXCEPT ![c].pc = "returned", ![c].threw = TRUE]
        /\ UNCHANGED <<fs, theme, libraryRows, libraryInstances, accounts,
                       activeUploaders, activeSessions, last>>

\* step 10 and the end of the catch block: activeUploaders.delete(taskId), return
ExecuteDelete ==
    \E c \in DOMAIN inflight :
        /\ inflight[c].pc = "delete"
        /\ activeUploaders' = activeUploaders \ {inflight[c].taskId}
        /\ inflight' = [DeleteUploader(inflight, inflight[c].taskId) EXCEPT
                            ![c].pc = "returned"]
        /\ UNCHANGED <<fs, theme, libraryRows, libraryInstances, accounts, tasks,
                       activeSessions, last>>

\* POST /tasks/:id/cancel: cancelTask looks the uploader up at once and raises
\* when there is none; else it waits for uploader.cancel()
CancelRoute ==
    /\ Len(inflight) < MaxCalls
    /\ \E taskId \in 1..(Len(tasks) + 1) :
          inflight' = Append(inflight,
              IF taskId \in activeUploaders THEN UploadCall("cancelTask", taskId, "cancel")
              ELSE [UploadCall("cancelTask", taskId, "returned") EXCEPT !.threw = TRUE])
    /\ UNCHANGED <<fs, theme, libraryRows, libraryInstances, accounts, tasks,
                   activeUploaders, activeSessions, last>>

\* uploader.cancel() is over: activeUploaders.delete(taskId)
CancelDelete ==
    \E c \in DOMAIN inflight :
        /\ inflight[c].pc = "cancel"
        /\ activeUploaders' = activeUploaders \ {inflight[c].taskId}
        /\ inflight' = [DeleteUploader(inflight, inflight[c].taskId) EXCEPT
                            ![c].pc = "markCancelled"]
        /\ UNCHANGED <<fs, theme, libraryRows, libraryInstances, accounts, tasks,
                       activeSessions, last>>

\* updateTaskStatus(taskId, 'failed'), return
CancelMark ==
    \E c \in DOMAIN inflight :
        /\ inflight[c].pc = "markCancelled"
        /\ tasks' = updateTaskStatus(tasks, inflight[c].taskId, "failed")
        /\ inflight' = [inflight EXCEPT ![c].pc = "returned"]
        /\ UNCHANGED <<fs, theme, libraryRows, libraryInstances, accounts,
                       activeUploaders, activeSessions, last>>

\* one pending task, of the one video of the theme
UploadStart == Start(Theme("published", <<Root(1, Food)>>), Noted, Fresh, TRUE)

InitUpload ==
    /\ fs = UploadStart.fs
    /\ theme = UploadStart.theme
    /\ libraryRows = UploadStart.libraryRows
    /\ tasks = PublishedRows(UploadStart)
    /\ libraryInstances = <<>>
    /\ accounts = {1}
    /\ activeUploaders = {}
    /\ activeSessions = <<>>
    /\ inflight = <<>>
    /\ last = NoCall

NextUpload ==
    \/ ExecuteRoute
    \/ ExecuteGetTask
    \/ ExecuteMarkProcessing
    \/ ExecuteRegister
    \/ ExecuteUploadSettles
    \/ ExecuteMarkResult
    \/ ExecuteCatch
    \/ ExecuteDelete
    \/ CancelRoute
    \/ CancelDelete
    \/ CancelMark

SpecUpload == InitUpload /\ [][NextUpload]_vars

----------------------------------------------------------------------------
(* C22 *)

\* the calls that took the step
Stepped == {c \in DOMAIN inflight : inflight'[c] # inflight[c]}

\* C22: an upload task's status follows pending -> processing -> success or
\* failed: under any sequence of executeTask and cancelTask calls a task whose
\* status is success never changes status again, and an executeTask call on a
\* task that is processing or success already leaves the stored status as it is
C22_StatusFlow ==
    [][/\ \A i \in 1..Len(tasks) :
              tasks[i].status = "success" => tasks'[i].status = "success"
       /\ \A c \in Stepped :
              (inflight[c].op = "executeTask"
                  /\ inflight[c].seen \in {"processing", "success"})
                  => tasks' = tasks]_vars

----------------------------------------------------------------------------
(* C23 *)

\* the folders getThemeVideos lists for a root: the root and its archive folder
ListedFolders(rp) ==
    {Normalize(rp.folderPath),
     PathJoin(rp.folderPath, <<ArchiveFolderNameOf(theme)>>)}

\* the video files in the storage of a root's library
VideoFilesOf(rp) ==
    {q \in DOMAIN fs[rp.libraryId].files : PathBasename(q) \in VideoNames}

\* C23: after any sequence of batchPublishThemeVideos, executeBatchPublish
\* (with autoArchive), batchArchiveVideos and batchUnarchiveVideos calls on a
\* theme whose roots do not nest, every video that started directly in a root
\* or in its archive folder is directly in <root> or in
\* <root>/<archiveFolderName> still, never deeper or elsewhere, so that
\* getThemeVideos lists it
C23_NeverDeeper ==
    theme.exists =>
        \A i \in 1..Len(theme.resourcePaths) :
            \A q \in VideoFilesOf(theme.resourcePaths[i]) :
                PathDirname(q) \in ListedFolders(theme.resourcePaths[i])

----------------------------------------------------------------------------
(* executeBatchPublish on the tasks one publish call made for one video and
   two accounts *)

FanOutStart == Start(Theme("published", <<Root(1, Food)>>), Noted, Fresh, TRUE)

\* the task table after batchPublishThemeVideos for accounts 1 and 2 and the
\* video food/b.mp4
FanOutRows ==
    batchPublishThemeVideos(FanOutStart.fs, FanOutStart.theme, FanOutStart.libraryRows,
                            <<>>, <<>>, {1, 2}, <<1, 2>>, <<Template(Food, "b.mp4")>>,
                            "undefined").rows

InitFanOut ==
    /\ fs = FanOutStart.fs
    /\ theme = FanOutStart.theme
    /\ libraryRows = FanOutStart.libraryRows
    /\ tasks = FanOutRows
    /\ libraryInstances = <<>>
    /\ accounts = {1, 2}
    /\ activeUploaders = {}
    /\ activeSessions = <<>>
    /\ inflight = <<>>
    /\ last = NoCall

NextFanOut ==
    \/ ExecuteBatchPublish
    \/ SendResponse

SpecFanOut == InitFanOut /\ [][NextFanOut]_vars

----------------------------------------------------------------------------
(* C24 *)

\* the task's resourcePath names a file of its library
PointsToFile(task) ==
    IsFile(fs[task.libraryId], Normalize(task.resourcePath))

\* C24: the tasks one batchPublishThemeVideos call made for one video and
\* several accounts do not invalidate each other: when executeBatchPublish runs
\* them in order with autoArchive, the move after the first task's success
\* leaves the resourcePath of every task still pending pointing to an existing
\* file, so that the later tasks can be executed
C24_PendingTasksKeepTheirFile ==
    \A i \in 1..Len(tasks) : tasks[i].status = "pending" => PointsToFile(tasks[i])

----------------------------------------------------------------------------
(* C25 *)

\* C25: in every batchArchiveVideos / batchUnarchiveVideos result, archived
\* (resp. unarchived) + failed = the number of results entries <= total, for
\* every theme configuration, roots of different libraries with one folderPath
\* (whose inventory entries have equal fullPath) included
C25_CountsWithinTotal ==
    (last.op \in {"batchArchiveVideos", "batchUnarchiveVideos"} /\ last.threw = "")
        => /\ last.done + last.failed = Len(last.results)
           /\ Len(last.results) <= last.total

----------------------------------------------------------------------------
(* C26 *)

\* the results of the executeBatchPublish call that came back, for tasks that
\* have a row
ResultsOfRows ==
    {i \in 1..Len(last.results) : last.results[i].taskId \in 1..Len(tasks)}

\* C26: executeBatchPublish reports success:true for a task if and only if the
\* task's stored status is success after the call: a failing auto-archive move
\* after a successful upload does not make the result success:false, and a
\* success:false result never goes with a task stored as success
C26_SuccessIffStored ==
    (last.op = "executeBatchPublish" /\ last.threw = "" /\ ~last.hung) =>
        \A i \in ResultsOfRows :
            last.results[i].success <=> tasks[last.results[i].taskId].status = "success"

----------------------------------------------------------------------------
(* C27 *)

\* the executeTask calls whose upload of the task is running
Uploading(calls, taskId) ==
    {c \in DOMAIN calls : calls[c].op = "executeTask" /\ calls[c].taskId = taskId
                              /\ calls[c].pc = "upload"}

\* call c was made while an execution of its task, started before it, was in
\* flight, and that execution is in flight still
MadeDuring(c) ==
    /\ inflight[c].op = "executeTask"
    /\ \E d \in 1..(c - 1) :
          /\ inflight[d].op = "executeTask"
          /\ inflight[d].taskId = inflight[c].taskId
          /\ inflight[d].pc # "returned"

\* C27: under any interleaving of executeTask calls for one taskId at most one
\* uploader of the task runs at a time: a call made while another execution of
\* the task is in flight starts no second upload, neither replaces nor removes
\* the task's activeUploaders entry and does not change the task's status
C27_OneUploaderAtATime ==
    [][/\ \A c \in DOMAIN inflight' :
              Cardinality(Uploading(inflight', inflight'[c].taskId)) <= 1
       /\ \A c \in Stepped :
              MadeDuring(c) =>
                  /\ inflight'[c].pc # "upload"
                  /\ activeUploaders' = activeUploaders
                  /\ Registered(inflight', inflight[c].taskId)
                         = Registered(inflight, inflight[c].taskId)
                  /\ tasks' = tasks]_vars

----------------------------------------------------------------------------
(* Two batchArchiveVideos calls on one local library, one await at a time.
   Each call is a record of inflight: what it was asked, the videos it has yet
   to archive (the first one is the one in hand), its results so far and, in
   pc, the Resource Store call it is about to make. *)

LocalRenameLeavesSource(lfs, s, t) ==
    IF ~Exists(lfs, s) THEN Outcome(FALSE, lfs, "ENOENT")
    ELSE Outcome(TRUE, [lfs EXCEPT !.files = [q \in DOMAIN lfs.files \cup {t} |->
                            IF q = t THEN lfs.files[s] ELSE lfs.files[q]]], "")

\* fs.rename(source, target): ENOENT without the source; what is at the target
\* is replaced
LocalRename(lfs, s, t) ==
    IF ~Exists(lfs, s) THEN Outcome(FALSE, lfs, "ENOENT")
    ELSE Outcome(TRUE, RenameOver(lfs, s, t), "")

\* path.join(path.dirname(videoPath), archiveFolderName)
ArchivePathIn(t, videoPath) == PathJoin(PathDirname(videoPath), <<ArchiveFolderNameOf(t)>>)

\* path.join(archivePath, path.basename(videoPath))
TargetPathIn(t, videoPath) == PathJoin(ArchivePathIn(t, videoPath), <<PathBasename(videoPath)>>)

ArchiveCall(videoPaths) ==
    [op |-> "batchArchiveVideos", req |-> videoPaths, pc |-> "list",
     eligible |-> <<>>, results |-> <<>>]

\* the video the call has in hand
InHand(c) == Head(inflight[c].eligible)

\* the loop of batchArchiveVideos: on to the next video, or return
NextVideoOf(call) ==
    [call EXCEPT !.eligible = Tail(@),
                 !.pc = IF Tail(call.eligible) = <<>> THEN "returned" ELSE "getInfo"]

\* results.push(...) for the video in hand and on
Push(call, result) == NextVideoOf([call EXCEPT !.results = Append(@, result)])

\* getThemeVideos answers: the filter.  What is eligible is what the listing of
\* the root's own folder shows (the archive folder's entries are published and
\* filtered out), so the two listings of getThemeVideos are one step here.
RaceList ==
    \E c \in DOMAIN inflight :
        /\ inflight[c].pc = "list"
        /\ LET all == getThemeVideos(fs, theme, libraryRows, libraryInstances, {})
               eligible == ArchiveFilter(all.videos, inflight[c].req)
           IN  /\ inflight' = [inflight EXCEPT
                     ![c].eligible = eligible,
                     ![c].pc = IF eligible = <<>> THEN "returned" ELSE "getInfo"]
               /\ libraryInstances' = all.instances
        /\ UNCHANGED <<fs, theme, libraryRows, accounts, tasks, activeUploaders,
                       activeSessions, last>>

\* archiveVideo: library.getInfo(archivePath) answers or raises
RaceGetInfo ==
    \E c \in DOMAIN inflight :
        /\ inflight[c].pc = "getInfo"
        /\ inflight' = [inflight EXCEPT ![c].pc =
              IF LocalGetInfo(fs[InHand(c).libraryId],
                              ArchivePathIn(theme, InHand(c).fullPath)).ok
              THEN "accessSource" ELSE "createFolder"]
        /\ UNCHANGED <<fs, theme, libraryRows, libraryInstances, accounts, tasks,
                       activeUploaders, activeSessions, last>>

\* archiveVideo: library.createFolder(archivePath) in the catch of getInfo
RaceCreateFolder ==
    \E c \in DOMAIN inflight :
        /\ inflight[c].pc = "createFolder"
        /\ LET made == LocalCreateFolder(fs[InHand(c).libraryId],
                                         ArchivePathIn(theme, InHand(c).fullPath))
           IN  /\ fs' = [fs EXCEPT ![InHand(c).libraryId] = made.fs]
               /\ inflight' = [inflight EXCEPT ![c] =
                     IF made.ok THEN [@ EXCEPT !.pc = "accessSource"]
                     ELSE Push(@, Failed(InHand(c), made.message))]
        /\ UNCHANGED <<theme, libraryRows, libraryInstances, accounts, tasks,
                       activeUploaders, activeSessions, last>>

\* move: fs.access(fullSourcePath)
RaceAccessSource ==
    \E c \in DOMAIN inflight :
        /\ inflight[c].pc = "accessSource"
        /\ inflight' = [inflight EXCEPT ![c] =
              IF Exists(fs[InHand(c).libraryId], Normalize(InHand(c).fullPath))
              THEN [@ EXCEPT !.pc = "accessTarget"]
              ELSE Push(@, Failed(InHand(c), "ENOENT"))]
        /\ UNCHANGED <<fs, theme, libraryRows, libraryInstances, accounts, tasks,
                       activeUploaders, activeSessions, last>>

\* move: fs.access(fullTargetPath), which must raise ENOENT
RaceAccessTarget ==
    \E c \in DOMAIN inflight :
        /\ inflight[c].pc = "accessTarget"
        /\ inflight' = [inflight EXCEPT ![c] =
              IF Exists(fs[InHand(c).libraryId], TargetPathIn(theme, InHand(c).fullPath))
              THEN Push(@, Failed(InHand(c), "target exists"))
              ELSE [@ EXCEPT !.pc = "mkdir"]]
        /\ UNCHANGED <<fs, theme, libraryRows, libraryInstances, accounts, tasks,
                       activeUploaders, activeSessions, last>>

\* move: fs.mkdir(targetDir, { recursive: true })
RaceMkdir ==
    \E c \in DOMAIN inflight :
        /\ inflight[c].pc = "mkdir"
        /\ LET made == LocalCreateFolder(fs[InHand(c).libraryId],
                                         ArchivePathIn(theme, InHand(c).fullPath))
           IN  /\ fs' = [fs EXCEPT ![InHand(c).libraryId] = made.fs]
               /\ inflight' = [inflight EXCEPT ![c] =
                     IF made.ok THEN [@ EXCEPT !.pc = "rename"]
                     ELSE Push(@, Failed(InHand(c), made.message))]
        /\ UNCHANGED <<theme, libraryRows, libraryInstances, accounts, tasks,
                       activeUploaders, activeSessions, last>>

\* move: fs.rename(fullSourcePath, fullTargetPath), then results.push
RaceRename ==
    \E c \in DOMAIN inflight :
        /\ inflight[c].pc = "rename"
        /\ LET moved == LocalRename(fs[InHand(c).libraryId],
                                    Normalize(InHand(c).fullPath),
                                    TargetPathIn(theme, InHand(c).fullPath))
           IN  /\ fs' = [fs EXCEPT ![InHand(c).libraryId] = moved.fs]
               /\ inflight' = [inflight EXCEPT ![c] =
                     Push(@, ResultOf(InHand(c), moved))]
        /\ UNCHANGED <<theme, libraryRows, libraryInstances, accounts, tasks,
                       activeUploaders, activeSessions, last>>

\* a.mp4 and b.mp4 unpublished, the archive folder there already
Archiving ==
    Storage({Food \o <<"a.mp4">>, Food \o <<"b.mp4">>, FoodPublished \o <<"c.jpg">>})

RaceStarts ==
    {Start(Theme("published", <<Root(1, Food)>>), local, Fresh, TRUE) :
        local \in {Fresh, Archiving}}

\* what each of the two calls asks for: a.mp4, alone or with b.mp4
RaceRequests ==
    {<<Food \o <<"a.mp4">>>>,
     <<Food \o <<"a.mp4">>, Food \o <<"b.mp4">>>>,
     <<Food \o <<"b.mp4">>, Food \o <<"a.mp4">>>>}

\* both requests have come in
InitRace ==
    /\ \E st \in RaceStarts :
          /\ fs = st.fs
          /\ theme = st.theme
          /\ libraryRows = st.libraryRows
    /\ \E first \in RaceRequests : \E second \in RaceRequests :
          inflight = <<ArchiveCall(first), ArchiveCall(second)>>
    /\ libraryInstances = <<>>
    /\ accounts = {1}
    /\ tasks = <<>>
    /\ activeUploaders = {}
    /\ activeSessions = <<>>
    /\ last = NoCall

NextRace ==
    \/ RaceList
    \/ RaceGetInfo
    \/ RaceCreateFolder
    \/ RaceAccessSource
    \/ RaceAccessTarget
    \/ RaceMkdir
    \/ RaceRename

SpecRace == InitRace /\ [][NextRace]_vars

----------------------------------------------------------------------------
(* C28 *)

\* the video paths both calls were asked to archive
AskedByBoth == Range(inflight[1].req) \cap Range(inflight[2].req)

\* the calls that report success:true for the path
ReportSuccess(calls, q) ==
    {c \in DOMAIN calls :
        \E i \in 1..Len(calls[c].results) :
            calls[c].results[i].path = q /\ calls[c].results[i].success}

\* the step moved the file at q, and nothing else, to its place in the archive
\* folder, where nothing was
MovedToArchive(files, after, q) ==
    /\ TargetPathIn(theme, q) \notin DOMAIN files
    /\ DOMAIN after = (DOMAIN files \ {q}) \cup {TargetPathIn(theme, q)}
    /\ after[TargetPathIn(theme, q)] = files[q]
    /\ \A p \in DOMAIN files \ {q} : after[p] = files[p]

\* both calls have returned: the file is in the archive folder and no more
\* than one call reports success for it
SettledOnce(files, calls, q) ==
    /\ q \notin DOMAIN files
    /\ TargetPathIn(theme, q) \in DOMAIN files
    /\ files[TargetPathIn(theme, q)] = Ident(q)
    /\ Cardinality(ReportSuccess(calls, q)) <= 1

\* C28: when two batchArchiveVideos calls asking for the same unpublished video
\* interleave at their await points, the file is moved exactly once, ends at
\* <root>/<archiveFolderName>/name, is never lost, duplicated or overwritten,
\* and at most one of the two calls reports success:true for it
C28_MovedExactlyOnce ==
    [][/\ \/ fs'[1].files = fs[1].files
          \/ \E q \in DOMAIN fs[1].files :
                /\ PathDirname(q) = Food
                /\ MovedToArchive(fs[1].files, fs'[1].files, q)
       /\ (\A c \in DOMAIN inflight' : inflight'[c].pc = "returned")
              => \A q \in AskedByBoth : SettledOnce(fs'[1].files, inflight', q)]_vars

\* both calls listed a.mp4 as unpublished and went for it: one moved it, the
\* other one's move failed
C28_Witness ==
    /\ \A c \in DOMAIN inflight :
          inflight[c].op = "batchArchiveVideos" /\ inflight[c].pc = "returned"
    /\ Len(inflight) = 2
    /\ \E c \in {1, 2} : \E i \in 1..Len(inflight[c].results) :
          /\ inflight[c].results[i].path = Food \o <<"a.mp4">>
          /\ ~inflight[c].results[i].success
          /\ inflight[c].results[i].message = "ENOENT"
    /\ Cardinality(ReportSuccess(inflight, Food \o <<"a.mp4">>)) = 1

----------------------------------------------------------------------------
(* ResourceService.getLibraryInstance, updateLibrary and deleteLibrary, one
   await at a time.  Each call is a record of inflight. *)

\* clearCache(libraryId)
clearCache(instances, libraryId) ==
    [l \in DOMAIN instances \ {libraryId} |-> instances[l]]

\* the instance is stored under the library id
CacheSet(instances, libraryId, instance) ==
    [l \in DOMAIN instances \cup {libraryId} |->
        IF l = libraryId THEN instance ELSE instances[l]]

\* findById answers null
NoRow == [type |-> "none", config |-> "none", isActive |-> FALSE]

\* ResourceLibraryModel.update(id, data): the fields that are given are written
UpdatedRow(row, data) ==
    [row EXCEPT !.config = IF data.config = "undefined" THEN @ ELSE data.config,
                !.isActive = IF data.isActive = "undefined" THEN @
                             ELSE data.isActive = "true"]

CacheCall(op, libraryId, pc) ==
    [op |-> op, libraryId |-> libraryId, pc |-> pc,
     data |-> [config |-> "undefined", isActive |-> "undefined"],
     row |-> NoRow, instance |-> NoInstance, threw |-> FALSE]

\* what updateLibrary is given: a new config, isActive false, or both
UpdateData ==
    {[config |-> c, isActive |-> a] : c \in {"undefined", "v2"}, a \in {"undefined", "false"}}
        \ {[config |-> "undefined", isActive |-> "undefined"]}

\* getLibraryInstance(libraryId) is called: the cached instance is returned at
\* once, else findById is awaited
GetLibraryInstanceCalled ==
    /\ Len(inflight) < MaxCalls
    /\ \E libraryId \in DOMAIN fs :
          inflight' = Append(inflight,
              IF libraryId \in DOMAIN libraryInstances
              THEN [CacheCall("getLibraryInstance", libraryId, "returned") EXCEPT
                        !.instance = libraryInstances[libraryId]]
              ELSE CacheCall("getLibraryInstance", libraryId, "findById"))
    /\ UNCHANGED <<fs, theme, libraryRows, libraryInstances, accounts, tasks,
                   activeUploaders, activeSessions, last>>

\* ResourceLibraryModel.findById reads the row
GetFindById ==
    \E c \in DOMAIN inflight :
        /\ inflight[c].op = "getLibraryInstance" /\ inflight[c].pc = "findById"
        /\ inflight' = [inflight EXCEPT
              ![c].row = IF inflight[c].libraryId \in DOMAIN libraryRows
                         THEN libraryRows[inflight[c].libraryId] ELSE NoRow,
              ![c].pc = "create"]
        /\ UNCHANGED <<fs, theme, libraryRows, libraryInstances, accounts, tasks,
                       activeUploaders, activeSessions, last>>

\* after the await: the two throws, else the instance is made from the row
\* that was read, cached and returned
GetCreate ==
    \E c \in DOMAIN inflight :
        /\ inflight[c].op = "getLibraryInstance" /\ inflight[c].pc = "create"
        /\ IF inflight[c].row = NoRow \/ ~inflight[c].row.isActive
           THEN /\ inflight' = [inflight EXCEPT ![c].pc = "returned", ![c].threw = TRUE]
                /\ libraryInstances' = libraryInstances
           ELSE /\ inflight' = [inflight EXCEPT
                      ![c].pc = "returned",
                      ![c].instance = CreateInstance(inflight[c].row)]
                /\ libraryInstances' = CacheSet(libraryInstances, inflight[c].libraryId,
                                                CreateInstance(inflight[c].row))
        /\ UNCHANGED <<fs, theme, libraryRows, accounts, tasks, activeUploaders,
                       activeSessions, last>>

\* updateLibrary(id, data) is called: clearCache(id) if data.config, then
\* ResourceLibraryModel.update is awaited
UpdateLibraryCalled ==
    /\ Len(inflight) < MaxCalls
    /\ \E id \in DOMAIN fs : \E data \in UpdateData :
          /\ inflight' = Append(inflight,
                 [CacheCall("updateLibrary", id, "update") EXCEPT !.data = data])
          /\ libraryInstances' = IF data.config # "undefined"
                                 THEN clearCache(libraryInstances, id)
                                 ELSE libraryInstances
    /\ UNCHANGED <<fs, theme, libraryRows, accounts, tasks, activeUploaders,
                   activeSessions, last>>

\* ResourceLibraryModel.update writes the row, or raises without it
UpdateLibraryWrites ==
    \E c \in DOMAIN inflight :
        /\ inflight[c].op = "updateLibrary" /\ inflight[c].pc = "update"
        /\ IF inflight[c].libraryId \in DOMAIN libraryRows
           THEN /\ libraryRows' = [libraryRows EXCEPT ![inflight[c].libraryId] =
                                       UpdatedRow(@, inflight[c].data)]
                /\ inflight' = [inflight EXCEPT ![c].pc = "returned"]
           ELSE /\ libraryRows' = libraryRows
                /\ inflight' = [inflight EXCEPT ![c].pc = "returned", ![c].threw = TRUE]
        /\ UNCHANGED <<fs, theme, libraryInstances, accounts, tasks, activeUploaders,
                       activeSessions, last>>

\* deleteLibrary(id) is called: clearCache(id), then ResourceLibraryModel.delete
\* is awaited
DeleteLibraryCalled ==
    /\ Len(inflight) < MaxCalls
    /\ \E id \in DOMAIN fs :
          /\ inflight' = Append(inflight, CacheCall("deleteLibrary", id, "delete"))
          /\ libraryInstances' = clearCache(libraryInstances, id)
    /\ UNCHANGED <<fs, theme, libraryRows, accounts, tasks, activeUploaders,
                   activeSessions, last>>

\* ResourceLibraryModel.delete removes the row, or raises without it
DeleteLibraryWrites ==
    \E c \in DOMAIN inflight :
        /\ inflight[c].op = "deleteLibrary" /\ inflight[c].pc = "delete"
        /\ IF inflight[c].libraryId \in DOMAIN libraryRows
           THEN /\ libraryRows' = [l \in DOMAIN libraryRows \ {inflight[c].libraryId} |->
                                       libraryRows[l]]
                /\ inflight' = [inflight EXCEPT ![c].pc = "returned"]
           ELSE /\ libraryRows' = libraryRows
                /\ inflight' = [inflight EXCEPT ![c].pc = "returned", ![c].threw = TRUE]
        /\ UNCHANGED <<fs, theme, libraryInstances, accounts, tasks, activeUploaders,
                       activeSessions, last>>

CacheStart == Start(Theme("published", <<Root(1, Food)>>), Fresh, Fresh, TRUE)

InitCache ==
    /\ fs = CacheStart.fs
    /\ theme = CacheStart.theme
    /\ libraryRows = CacheStart.libraryRows
    /\ libraryInstances = <<>>
    /\ accounts = {1}
    /\ tasks = <<>>
    /\ activeUploaders = {}
    /\ activeSessions = <<>>
    /\ inflight = <<>>
    /\ last = NoCall

NextCache ==
    \/ GetLibraryInstanceCalled
    \/ GetFindById
    \/ GetCreate
    \/ UpdateLibraryCalled
    \/ UpdateLibraryWrites
    \/ DeleteLibraryCalled
    \/ DeleteLibraryWrites

SpecCache == InitCache /\ [][NextCache]_vars

----------------------------------------------------------------------------
(* C29 *)

\* no call is under way
Quiescent == \A c \in DOMAIN inflight : inflight[c].pc = "returned"

\* the cached instance is the one the library's row gives now
Current(libraryId) ==
    /\ libraryId \in DOMAIN libraryRows
    /\ libraryRows[libraryId].isActive
    /\ libraryInstances[libraryId] = CreateInstance(libraryRows[libraryId])

\* C29: the instance cache is coherent with the library records: once
\* updateLibrary(id, data) or deleteLibrary(id) has completed,
\* getLibraryInstance(id) never returns an instance built from the library's
\* previous config, nor one of a library that is inactive or deleted now, also
\* when a getLibraryInstance(id) call interleaved with the update.  A call made
\* when nothing is under way returns what the cache holds, so the cache holds
\* current instances only.
C29_CacheCoherent ==
    Quiescent => \A libraryId \in DOMAIN libraryInstances : Current(libraryId)

----------------------------------------------------------------------------
(* AccountService.finishLogin and cancelLogin, one await at a time, on the
   session startLogin has opened.  Each call is a record of inflight; it keeps
   the service it got from activeSessions for all its steps. *)

\* the session startLogin made, and one that never was
SessionIds == {"douyin_1", "douyin_0"}

\* activeSessions.get(sessionId) gives a service
HasSession(sessions, sessionId) ==
    sessionId \in DOMAIN sessions /\ sessions[sessionId].held

\* service.closeBrowser()
closeBrowser(sessions, sessionId) == [sessions EXCEPT ![sessionId].context = "closed"]

\* activeSessions.delete(sessionId)
DeleteSession(sessions, sessionId) == [sessions EXCEPT ![sessionId].held = FALSE]

LoginCall(op, sessionId, pc, threw) ==
    [op |-> op, sessionId |-> sessionId, pc |-> pc, threw |-> threw, id |-> 0]

\* finishLogin(sessionId, platform, accountName) is called: without the
\* session it raises at once, else saveLoginData is awaited
FinishLoginCalled ==
    /\ Len(inflight) < MaxCalls
    /\ \E sessionId \in SessionIds :
          inflight' = Append(inflight,
              IF HasSession(activeSessions, sessionId)
              THEN LoginCall("finishLogin", sessionId, "saveLoginData", FALSE)
              ELSE LoginCall("finishLogin", sessionId, "returned", TRUE))
    /\ UNCHANGED <<fs, theme, libraryRows, libraryInstances, accounts, tasks,
                   activeUploaders, activeSessions, last>>

\* service.saveLoginData(platform): raises without the browser context, and
\* may raise with it
FinishSaveLoginData ==
    \E c \in DOMAIN inflight :
        /\ inflight[c].op = "finishLogin" /\ inflight[c].pc = "saveLoginData"
        /\ \E saved \in BOOLEAN :
              /\ activeSessions[inflight[c].sessionId].context = "closed" => ~saved
              /\ inflight' = [inflight EXCEPT
                    ![c].pc = IF saved THEN "closeBrowser" ELSE "catch"]
        /\ UNCHANGED <<fs, theme, libraryRows, libraryInstances, accounts, tasks,
                       activeUploaders, activeSessions, last>>

\* service.closeBrowser() of the try block
FinishCloseBrowser ==
    \E c \in DOMAIN inflight :
        /\ inflight[c].op = "finishLogin" /\ inflight[c].pc = "closeBrowser"
        /\ activeSessions' = closeBrowser(activeSessions, inflight[c].sessionId)
        /\ inflight' = [inflight EXCEPT ![c].pc = "create"]
        /\ UNCHANGED <<fs, theme, libraryRows, libraryInstances, accounts, tasks,
                       activeUploaders, last>>

\* AccountModel.create(...) writes the account row, or raises
FinishCreate ==
    \E c \in DOMAIN inflight :
        /\ inflight[c].op = "finishLogin" /\ inflight[c].pc = "create"
        /\ \E created \in BOOLEAN :
              IF created
              THEN /\ accounts' = accounts \cup {Cardinality(accounts) + 1}
                   /\ inflight' = [inflight EXCEPT ![c].pc = "delete",
                                                   ![c].id = Cardinality(accounts) + 1]
              ELSE /\ accounts' = accounts
                   /\ inflight' = [inflight EXCEPT ![c].pc = "catch"]
        /\ UNCHANGED <<fs, theme, libraryRows, libraryInstances, tasks,
                       activeUploaders, activeSessions, last>>

\* activeSessions.delete(sessionId); return account.id
FinishDelete ==
    \E c \in DOMAIN inflight :
        /\ inflight[c].op = "finishLogin" /\ inflight[c].pc = "delete"
        /\ activeSessions' = DeleteSession(activeSessions, inflight[c].sessionId)
        /\ inflight' = [inflight EXCEPT ![c].pc = "returned"]
        /\ UNCHANGED <<fs, theme, libraryRows, libraryInstances, accounts, tasks,
                       activeUploaders, last>>

\* the catch block: service.closeBrowser()
FinishCatch ==
    \E c \in DOMAIN inflight :
        /\ inflight[c].op = "finishLogin" /\ inflight[c].pc = "catch"
        /\ activeSessions' = closeBrowser(activeSessions, inflight[c].sessionId)
        /\ inflight' = [inflight EXCEPT ![c].pc = "catchDelete"]
        /\ UNCHANGED <<fs, theme, libraryRows, libraryInstances, accounts, tasks,
                       activeUploaders, last>>

\* the catch block: activeSessions.delete(sessionId); throw error
FinishCatchDelete ==
    \E c \in DOMAIN inflight :
        /\ inflight[c].op = "finishLogin" /\ inflight[c].pc = "catchDelete"
        /\ activeSessions' = DeleteSession(activeSessions, inflight[c].sessionId)
        /\ inflight' = [inflight EXCEPT ![c].pc = "returned", ![c].threw = TRUE]
        /\ UNCHANGED <<fs, theme, libraryRows, libraryInstances, accounts, tasks,
                       activeUploaders, last>>

\* cancelLogin(sessionId) is called: without the session it returns at once,
\* else closeBrowser is awaited
CancelLoginCalled ==
    /\ Len(inflight) < MaxCalls
    /\ \E sessionId \in SessionIds :
          inflight' = Append(inflight,
              IF HasSession(activeSessions, sessionId)
              THEN LoginCall("cancelLogin", sessionId, "closeBrowser", FALSE)
              ELSE LoginCall("cancelLogin", sessionId, "returned", FALSE))
    /\ UNCHANGED <<fs, theme, libraryRows, libraryInstances, accounts, tasks,
                   activeUploaders, activeSessions, last>>

\* cancelLogin: service.closeBrowser()
CancelCloseBrowser ==
    \E c \in DOMAIN inflight :
        /\ inflight[c].op = "cancelLogin" /\ inflight[c].pc = "closeBrowser"
        /\ activeSessions' = closeBrowser(activeSessions, inflight[c].sessionId)
        /\ inflight' = [inflight EXCEPT ![c].pc = "delete"]
        /\ UNCHANGED <<fs, theme, libraryRows, libraryInstances, accounts, tasks,
                       activeUploaders, last>>

\* cancelLogin: activeSessions.delete(sessionId)
CancelLoginDelete ==
    \E c \in DOMAIN inflight :
        /\ inflight[c].op = "cancelLogin" /\ inflight[c].pc = "delete"
        /\ activeSessions' = DeleteSession(activeSessions, inflight[c].sessionId)
        /\ inflight' = [inflight EXCEPT ![c].pc = "returned"]
        /\ UNCHANGED <<fs, theme, libraryRows, libraryInstances, accounts, tasks,
                       activeUploaders, last>>

LoginStart == Start(NoTheme, Fresh, Fresh, TRUE)

\* startLogin has opened the browser and stored the session; no account yet
InitLogin ==
    /\ fs = LoginStart.fs
    /\ theme = LoginStart.theme
    /\ libraryRows = LoginStart.libraryRows
    /\ libraryInstances = <<>>
    /\ accounts = {}
    /\ tasks = <<>>
    /\ activeUploaders = {}
    /\ activeSessions = [s \in {"douyin_1"} |-> [held |-> TRUE, context |-> "open"]]
    /\ inflight = <<>>
    /\ last = NoCall

NextLogin ==
    \/ FinishLoginCalled
    \/ FinishSaveLoginData
    \/ FinishCloseBrowser
    \/ FinishCreate
    \/ FinishDelete
    \/ FinishCatch
    \/ FinishCatchDelete
    \/ CancelLoginCalled
    \/ CancelCloseBrowser
    \/ CancelLoginDelete

SpecLogin == InitLogin /\ [][NextLogin]_vars

----------------------------------------------------------------------------
(* C30 *)

\* a call on the session has completed
Completed(calls, sessionId) ==
    \E c \in DOMAIN calls : calls[c].sessionId = sessionId /\ calls[c].pc = "returned"

\* the call the step has started, made without the session in activeSessions:
\* finishLogin fails with the session-not-found error, cancelLogin succeeds
\* and changes nothing
RefusedCleanly(call) ==
    /\ call.pc = "returned"
    /\ call.op = "finishLogin" => call.threw
    /\ call.op = "cancelLogin" =>
          (~call.threw /\ activeSessions' = activeSessions /\ accounts' = accounts)

\* C30: a login session is single-use: under any interleaving of finishLogin
\* and cancelLogin calls on one sessionId at most one account record is
\* created; once the first finishLogin (success or failure) or cancelLogin has
\* completed the session is absent from activeSessions and a later finishLogin
\* fails with the session-not-found error; cancelLogin on an unknown or
\* consumed sessionId succeeds without effect
C30_SessionSingleUse ==
    [][/\ Cardinality(accounts') <= 1
       /\ \A s \in SessionIds :
              Completed(inflight', s) => ~HasSession(activeSessions', s)
       /\ Len(inflight') > Len(inflight) =>
              (~HasSession(activeSessions, inflight'[Len(inflight')].sessionId)
                  => RefusedCleanly(inflight'[Len(inflight')]))]_vars

====
